---- MODULE Spec2Model ----
(***************************************************************************)
(* Run diagnostics and log retrieval of the AWS HealthOmics MCP server:    *)
(*   tools/troubleshooting.py     diagnose_run_failure                     *)
(*   tools/workflow_analysis.py   _get_logs_from_stream and its wrappers   *)
(* One tool call runs per behaviour.  The HealthOmics and CloudWatch       *)
(* backends are the environment: every response (or exception) of a        *)
(* backend call is chosen when the call is made and written down in        *)
(* `calls`, so that the report can be compared with what the backend said. *)
(***************************************************************************)
EXTENDS Integers, Sequences, FiniteSets, TLC

(* ---------------------------- bounds ---------------------------------- *)
\* list_run_tasks pages the backend serves before it stops handing out a token
MaxPages == 2
\* failed tasks of one run, over all pages
MaxTasks == 2
\* the largest reservation or usage figure in a manifest
MaxUnits == 2
\* the most events of a manifest stream made of several lines
MaxEvents == 2
\* the most run ids given to analyze_run
MaxRuns == 3

(* ---------------------------- values ---------------------------------- *)
\* Python's None, and a key missing from a response read with .get(key)
None == "<None>"

\* `if x:` on an Optional[str]
Truthy(x) == x \notin {None, ""}

RunIds == {"run-1", "run-2"}
Tokens == {"tok-A"}
\* nextToken of a list_run_tasks response: missing, empty or a token
NextTokens == {None, ""} \cup Tokens

\* the backend numbers the failed tasks of a run; ids are unique
TaskIdOf(k) == CASE k = 1 -> "task-1" [] k = 2 -> "task-2" [] k = 3 -> "task-3"
                 [] k = 4 -> "task-4" [] k = 5 -> "task-5" [] OTHER -> "task-6"
TaskNameOf(k) == CASE k = 1 -> "preprocessing" [] k = 2 -> "analysis" [] OTHER -> "report"

\* the phrases the report looks for in its own lists (troubleshooting.py:246,249)
ENGINE_ERROR == "Error retrieving engine logs"
MANIFEST_ERROR == "Error retrieving manifest logs"
TASK_ERROR == "Error retrieving task logs for"
NO_UUID == "No run UUID available - manifest logs cannot be retrieved"

\* exceptions: the class, and str(e)
ClientError(code) == [class |-> "ClientError", text |-> code]
BotoCoreError == [class |-> "BotoCoreError", text |-> "EndpointConnectionError"]
OtherError(text) == [class |-> "Exception", text |-> text]
NoError == [class |-> "", text |-> ""]

\* A string of the report: a fixed phrase, the value formatted into it, and the
\* tail (str(e) for an f-string, the whole text for a backend log line).
\* `subject` is the tuple of values formatted into the phrase.
Message(phrase, subject, tail) == [phrase |-> phrase, subject |-> subject, tail |-> tail]
LogLine(text) == Message("", <<>>, text)

\* backend log lines: "Starting workflow execution", and one that quotes both
\* error phrases
PhrasesIn(text) ==
  IF text = "retry after Error retrieving engine logs / Error retrieving manifest logs"
  THEN {ENGINE_ERROR, MANIFEST_ERROR} ELSE {}

\* `needle in str(msg)`
Contains(msg, needle) == msg.phrase = needle \/ needle \in PhrasesIn(msg.tail)
\* `needle in str(list)`
ListContains(list, needle) == \E i \in 1..Len(list) : Contains(list[i], needle)

\* the event messages of one get_log_events response
EventLists ==
  {<<>>,
   <<"Starting workflow execution">>,
   <<"retry after Error retrieving engine logs / Error retrieving manifest logs",
     "Starting workflow execution">>}

(* ------------------------------- time ---------------------------------- *)
\* The value under a time key: a datetime object (aware, in UTC: the seconds
\* since 1970-01-01T00:00:00 and the microseconds), a str, or None / no key.
Datetime(sec, micro) == [t |-> "datetime", sec |-> sec, micro |-> micro, text |-> ""]
Str(text) == [t |-> "str", sec |-> 0, micro |-> 0, text |-> text]
NoTime == [t |-> "none", sec |-> 0, micro |-> 0, text |-> ""]

\* decimal digits, zero-padded as isoformat() prints them
Digit(d) == SubSeq("0123456789", d + 1, d + 1)
Pad2(n) == Digit(n \div 10) \o Digit(n % 10)
Pad4(n) == Pad2(n \div 100) \o Pad2(n % 100)
Pad6(n) == Pad2(n \div 10000) \o Pad4(n % 10000)

\* the proleptic Gregorian date of the day `days` after 1970-01-01
CivilFromDays(days) ==
  LET z == days + 719468
      era == z \div 146097
      doe == z - era * 146097
      yoe == (doe - doe \div 1460 + doe \div 36524 - doe \div 146096) \div 365
      doy == doe - (365 * yoe + yoe \div 4 - yoe \div 100)
      mp == (5 * doy + 2) \div 153
      month == IF mp < 10 THEN mp + 3 ELSE mp - 9
  IN [year |-> yoe + era * 400 + (IF month <= 2 THEN 1 ELSE 0),
      month |-> month,
      day |-> doy - (153 * mp + 2) \div 5 + 1]

\* the date and time of day of a datetime, as isoformat() prints them
DateAndTime(sec, micro) ==
  LET date == CivilFromDays(sec \div 86400)
      secs == sec % 86400
  IN Pad4(date.year) \o "-" \o Pad2(date.month) \o "-" \o Pad2(date.day) \o "T"
       \o Pad2(secs \div 3600) \o ":" \o Pad2((secs % 3600) \div 60) \o ":" \o Pad2(secs % 60)
       \o (IF micro = 0 THEN "" ELSE "." \o Pad6(micro))

\* datetime.isoformat() of an aware datetime in UTC: the offset is written out
IsoFormat(dt) == DateAndTime(dt.sec, dt.micro) \o "+00:00"

\* `s.endswith(suffix)`
EndsWith(s, suffix) ==
  Len(s) >= Len(suffix) /\ SubSeq(s, Len(s) - Len(suffix) + 1, Len(s)) = suffix

RECURSIVE Replace(_, _, _)
\* `s.replace(old, new)`
Replace(s, old, new) ==
  IF Len(s) < Len(old) THEN s
  ELSE IF SubSeq(s, 1, Len(old)) = old
    THEN new \o Replace(SubSeq(s, Len(old) + 1, Len(s)), old, new)
  ELSE SubSeq(s, 1, 1) \o Replace(SubSeq(s, 2, Len(s)), old, new)

\* `x.isoformat() if hasattr(x, 'isoformat') else x`
IsoformatIfDatetime(x) == IF x.t = "datetime" THEN Str(IsoFormat(x)) ELSE x

\* `run_response.get(key, '')` on a time key
GetTimeOrEmpty(x) == IF x.t = "none" THEN Str("") ELSE x

(* ------------------- CloudWatch Logs: the reader ----------------------- *)
\* An epoch-millisecond timestamp, kept as its whole seconds and the
\* milliseconds over: 1640995200000 is EpochMs(1640995200, 0).  (The number
\* itself is beyond the integers TLC computes with.)
EpochMs(sec, ms) == [sec |-> sec, ms |-> ms]
\* an event of a get_log_events response
Event(timestamp, message) == [timestamp |-> timestamp, message |-> message]
\* the events of a page are a minute apart, the first at 2022-01-01T00:00:00 UTC
StampOf(i) == EpochMs(1640995200 + 60 * (i - 1), 0)
Stamped(messages) == [i \in 1..Len(messages) |-> Event(StampOf(i), messages[i])]

\* start_time / end_time arguments of the log tools
TimeArgs == {None, "", "2022-01-01T00:00:00Z", "invalid-timestamp"}

\* The optional parameters of the log tools are declared `= Field(None, ...)`.
\* A caller that leaves one out gets that default: None once the framework has
\* resolved it, the Field object itself in a plain Python call.  The object is
\* truthy and str() of it is no timestamp.
FieldDefault == "FieldInfo(default=None)"
OmittedArgs == {None, FieldDefault}

\* not the code: a parser that takes any string
FromIsoFormatNeverRaises(s) == FALSE
\* datetime.fromisoformat(str(s).replace('Z', '+00:00')) raises ValueError
FromIsoFormatRaises(s) == s \in {"invalid-timestamp", FieldDefault}

ValueError == [class |-> "ValueError", text |-> "Invalid isoformat string"]
ResourceNotFound == ClientError("ResourceNotFoundException")
ClientCreationError == OtherError("Failed to create client")

\* What the CloudWatch side does with one tool call: get_logs_client() may fail
\* (`client`), get_log_events may raise (`exc`) or answer with events and tokens.
LogAnswer(client, exc, events, fwd) ==
  [client |-> client, exc |-> exc, events |-> events, nextForwardToken |-> fwd]
LogBackends ==
     {LogAnswer(ClientCreationError, NoError, <<>>, None)}
  \cup {LogAnswer(NoError, e, <<>>, None) : e \in {ResourceNotFound, BotoCoreError}}
  \cup {LogAnswer(NoError, NoError, Stamped(ev), fwd) :
          ev \in EventLists, fwd \in {None, "f/tok"}}
\* the streams of failed tasks: short, and the client is there
TaskLogBackends ==
  {a \in LogBackends : a.client = NoError /\ Len(a.events) <= 1}

\* the arguments of one call of a log tool
LogRequest(start_time, end_time, limit, next_token, start_from_head) ==
  [start_time |-> start_time, end_time |-> end_time, limit |-> limit,
   next_token |-> next_token, start_from_head |-> start_from_head]

\* the outcome of a call: the exception raised (NoError: it returned), the
\* returned events, nextToken and error marker, whether get_log_events was
\* requested, and what was sent to ctx.error
Outcome(raised, events, nextToken, error, requested, ctx) ==
  [raised |-> raised, events |-> events, nextToken |-> nextToken,
   error |-> error, requested |-> requested, ctx |-> ctx]
Raise(e, requested) == Outcome(e, <<>>, None, None, requested, <<>>)

\* not the code: the reading of the machine's clock, eight hours behind UTC
FromTimestampLocal(ts) == Datetime(ts.sec - 8 * 3600, ts.ms * 1000)
\* datetime.fromtimestamp(timestamp_ms / 1000, tz=timezone.utc)
FromTimestamp(ts) == Datetime(ts.sec, ts.ms * 1000)

\* the events of a response: the timestamp as a UTC instant with Z for the
\* offset, the message as the backend gave it
TransformEvents(events) ==
  [i \in 1..Len(events) |->
     [timestamp |-> Replace(IsoFormat(FromTimestamp(events[i].timestamp)), "+00:00", "Z"),
      message |-> LogLine(events[i].message)]]

\* not the code: a reader that answers a missing stream with an empty page
GetLogsFromStreamNotFound(req, answer) ==
  IF Truthy(req.start_time) /\ FromIsoFormatRaises(req.start_time) THEN Raise(ValueError, FALSE)
  ELSE IF Truthy(req.end_time) /\ FromIsoFormatRaises(req.end_time) THEN Raise(ValueError, FALSE)
  ELSE IF answer.exc.class = "ClientError" /\ answer.exc.text = "ResourceNotFoundException"
    THEN Outcome(NoError, <<>>, None, "Log stream not found", TRUE, <<>>)
  ELSE IF answer.exc # NoError THEN Raise(answer.exc, TRUE)
  ELSE Outcome(NoError, TransformEvents(answer.events),
               answer.nextForwardToken, None, TRUE, <<>>)

\* _get_logs_from_stream: parse the time bounds, request the page, reshape it
GetLogsFromStream(req, answer) ==
  IF Truthy(req.start_time) /\ FromIsoFormatRaises(req.start_time) THEN Raise(ValueError, FALSE)
  ELSE IF Truthy(req.end_time) /\ FromIsoFormatRaises(req.end_time) THEN Raise(ValueError, FALSE)
  ELSE IF answer.exc # NoError THEN Raise(answer.exc, TRUE)
  ELSE Outcome(NoError, TransformEvents(answer.events),
               answer.nextForwardToken, None, TRUE, <<>>)

\* the four log tools: their stream and the words of their error reports
LogTools == {"run", "engine", "manifest", "task"}
AwsErrorPhrase(t) ==
  CASE t = "run" -> "AWS error retrieving run logs for run"
    [] t = "engine" -> "AWS error retrieving engine logs for run"
    [] t = "manifest" -> "AWS error retrieving manifest logs for run"
    [] OTHER -> "AWS error retrieving task logs for run, task"
UnexpectedErrorPhrase(t) ==
  CASE t = "run" -> "Unexpected error retrieving run logs for run"
    [] t = "engine" -> "Unexpected error retrieving engine logs for run"
    [] t = "manifest" -> "Unexpected error retrieving manifest logs for run"
    [] OTHER -> "Unexpected error retrieving task logs for run, task"

\* the except clauses of get_run_logs, get_run_manifest_logs, get_run_engine_logs,
\* get_task_logs: report to the context, then re-raise
LogToolHandler(t, subject, r) ==
  IF r.raised = NoError THEN r
  ELSE [r EXCEPT !.ctx =
         IF r.raised.class = "ValueError"
           THEN <<Message("Invalid timestamp format", <<>>, r.raised.text)>>
         ELSE IF r.raised.class = "BotoCoreError"
           THEN <<Message(AwsErrorPhrase(t), subject, r.raised.text)>>
         ELSE <<Message(UnexpectedErrorPhrase(t), subject, r.raised.text)>>]

\* get_run_logs / get_run_manifest_logs / get_run_engine_logs / get_task_logs:
\* the client is made outside the try, the stream is read inside it
LogTool(t, subject, req, answer) ==
  IF answer.client # NoError THEN Raise(answer.client, FALSE)
  ELSE LogToolHandler(t, subject, GetLogsFromStream(req, answer))

\* _get_run_manifest_logs_internal: reads the log group of the run uuid itself;
\* a missing log group becomes an empty result with an error marker
GetRunManifestLogsInternal(req, answer) ==
  IF answer.client # NoError THEN Raise(answer.client, FALSE)
  ELSE IF Truthy(req.start_time) /\ FromIsoFormatRaises(req.start_time) THEN Raise(ValueError, FALSE)
  ELSE IF Truthy(req.end_time) /\ FromIsoFormatRaises(req.end_time) THEN Raise(ValueError, FALSE)
  ELSE IF answer.exc.class = "ClientError" /\ answer.exc.text = "ResourceNotFoundException"
    THEN Outcome(NoError, <<>>, None, "Log group not found", TRUE, <<>>)
  ELSE IF answer.exc # NoError THEN Raise(answer.exc, TRUE)
  ELSE Outcome(NoError, TransformEvents(answer.events),
               answer.nextForwardToken, None, TRUE, <<>>)

(* ------------------- HealthOmics: runs and tasks ----------------------- *)
\* The times of a run as the SDK hands them out: datetime objects; a run without
\* a uuid never started, a run that is RUNNING has not stopped, and such a key
\* is left out of the response.
RunTimes(status, uuid) ==
  [creationTime |-> IF status = None THEN NoTime ELSE Datetime(1640995200, 0),
   startTime |-> IF status = None \/ uuid = None THEN NoTime ELSE Datetime(1640995260, 0),
   stopTime |-> IF status \in {None, "RUNNING"} THEN NoTime
                ELSE Datetime(1640998861, 500000)]

\* get_run responses
RunResponse(status, uuid, failureReason) ==
  [status |-> status, uuid |-> uuid, failureReason |-> failureReason,
   creationTime |-> RunTimes(status, uuid).creationTime,
   startTime |-> RunTimes(status, uuid).startTime,
   stopTime |-> RunTimes(status, uuid).stopTime]
RunResponses ==
  {RunResponse("FAILED", "uuid-1", "Task execution failed due to insufficient memory"),
   RunResponse("FAILED", None, None),
   RunResponse("FAILED", "", "Task execution failed due to insufficient memory"),
   RunResponse("RUNNING", "uuid-1", None),
   RunResponse("COMPLETED", None, None)}
NoRunResponse == RunResponse(None, None, None)

\* exceptions of an omics call
OmicsErrors == {ClientError("ResourceNotFoundException"), BotoCoreError,
                OtherError("Unexpected error")}

\* the k-th failed task as list_run_tasks returns it; even tasks have no statusMessage
FailedTaskItem(k) ==
  [taskId |-> TaskIdOf(k), name |-> TaskNameOf(k),
   statusMessage |-> IF k % 2 = 1 THEN "Container exited with code 1" ELSE None]

\* a list_run_tasks response
TasksResponse(items, nextToken) == [items |-> items, nextToken |-> nextToken]
NoTasksResponse == TasksResponse(<<>>, None)

\* The pages the backend can serve next, `listed` tasks and `served` pages
\* having gone out: the run has at most MaxTasks failed tasks, and a token
\* comes only while fewer than MaxPages pages are out.
TaskPages(listed, served) ==
  {TasksResponse([i \in 1..n |-> FailedTaskItem(listed + i)], tok) :
     n \in 0..(MaxTasks - listed),
     tok \in IF served + 1 < MaxPages THEN NextTokens ELSE {None, ""}}

(* --------------------------- the run manifest -------------------------- *)
\* A manifest message is JSON text.  A JSON value carries its type; an object
\* is a function from its keys to values, read with .get(key, default).
JNum(n) == [t |-> "num", n |-> n]
JNull == [t |-> "null", n |-> 0]
JStr(text) == [t |-> "str", n |-> 0, text |-> text]
JObj(d) == [t |-> "obj", n |-> 0, o |-> d]
EmptyDict == [k \in {} |-> JNull]
Get(d, k, default) == IF k \in DOMAIN d THEN d[k] ELSE default
IsNum(v) == v.t = "num"
\* `v > 0` on a number
Positive(v) == v.n > 0

\* the quotient of two numbers, kept as the pair it was computed from
Ratio(num, den) == [num |-> num, den |-> den]
\* the int 0 the code puts where it does not divide
ZeroRatio == Ratio(0, 1)
Max(a, b) == IF a >= b THEN a ELSE b

\* not the code: a task without a reservation counts as using all of it
EfficiencyRatioFullIfUnreserved(used, reserved) ==
  IF Positive(reserved) THEN Ratio(used.n, reserved.n) ELSE Ratio(1, 1)
\* not the code: dividing whatever the reservation is
EfficiencyRatioUnguarded(used, reserved) == Ratio(used.n, reserved.n)
\* `used / reserved if reserved > 0 else 0`
EfficiencyRatio(used, reserved) ==
  IF Positive(reserved) THEN Ratio(used.n, reserved.n) ELSE ZeroRatio

\* not the code: a threshold that takes the boundary in
BelowOrAtHalf(r) == 2 * r.num <= r.den
\* `ratio < 0.5`
BelowHalf(r) == 2 * r.num < r.den
\* `ratio > 0.9`
AboveNineTenths(r) == 10 * r.num > 9 * r.den

\* _extract_task_metrics_from_manifest raises inside its try (and so returns
\* None): .get on a metrics value that is no object, `> 0` on a reservation that
\* is no number, a division or subtraction with a usage that is no number
ExtractRaises(task_data) ==
  LET task_metrics == Get(task_data, "metrics", JObj(EmptyDict))
  IN \/ task_metrics.t # "obj"
     \/ LET m == task_metrics.o
            SideRaises(reserved, avg, max) ==
              \/ ~IsNum(Get(m, reserved, JNum(0)))
              \/ ~IsNum(Get(m, avg, JNum(0)))
              \/ Positive(Get(m, reserved, JNum(0))) /\ ~IsNum(Get(m, max, JNum(0)))
        IN \/ SideRaises("cpusReserved", "cpusAverage", "cpusMaximum")
           \/ SideRaises("memoryReservedGiB", "memoryAverageGiB", "memoryMaximumGiB")

NoTaskMetric == [kind |-> "none"]

\* _extract_task_metrics_from_manifest: the task record of a task object, or None
ExtractTaskMetricsFromManifest(task_data) ==
  IF ExtractRaises(task_data) THEN NoTaskMetric
  ELSE
    LET m == Get(task_data, "metrics", JObj(EmptyDict)).o
        reservedCpus == Get(m, "cpusReserved", JNum(0))
        avgCpu == Get(m, "cpusAverage", JNum(0))
        maxCpu == Get(m, "cpusMaximum", JNum(0))
        reservedMemory == Get(m, "memoryReservedGiB", JNum(0))
        avgMemory == Get(m, "memoryAverageGiB", JNum(0))
        maxMemory == Get(m, "memoryMaximumGiB", JNum(0))
        cpuEfficiencyRatio == EfficiencyRatio(avgCpu, reservedCpus)
        maxCpuEfficiencyRatio == EfficiencyRatio(maxCpu, reservedCpus)
        memoryEfficiencyRatio == EfficiencyRatio(avgMemory, reservedMemory)
        maxMemoryEfficiencyRatio == EfficiencyRatio(maxMemory, reservedMemory)
    IN [kind |-> "task",
        taskName |-> Get(task_data, "name", JStr("unknown")),
        taskArn |-> Get(task_data, "arn", JStr("")),
        allocatedCpus |-> Get(task_data, "cpus", JNum(0)),
        allocatedMemoryGiB |-> Get(task_data, "memory", JNum(0)),
        instanceType |-> Get(task_data, "instanceType", JStr("")),
        reservedCpus |-> reservedCpus,
        avgCpuUtilization |-> avgCpu,
        maxCpuUtilization |-> maxCpu,
        reservedMemoryGiB |-> reservedMemory,
        avgMemoryUtilizationGiB |-> avgMemory,
        maxMemoryUtilizationGiB |-> maxMemory,
        cpuEfficiencyRatio |-> cpuEfficiencyRatio,
        maxCpuEfficiencyRatio |-> maxCpuEfficiencyRatio,
        memoryEfficiencyRatio |-> memoryEfficiencyRatio,
        maxMemoryEfficiencyRatio |-> maxMemoryEfficiencyRatio,
        wastedCpus |-> Max(0, reservedCpus.n - avgCpu.n),
        wastedMemoryGiB |-> Max(0, reservedMemory.n - avgMemory.n),
        isOverProvisioned |->
          BelowHalf(cpuEfficiencyRatio) \/ BelowHalf(memoryEfficiencyRatio),
        isUnderProvisioned |->
          AboveNineTenths(maxCpuEfficiencyRatio)
            \/ AboveNineTenths(maxMemoryEfficiencyRatio)]

\* prompts/workflow_analysis.py has its own _extract_task_metrics_from_manifest
PromptExtractTaskMetricsFromManifest(task_data) ==
  IF ExtractRaises(task_data) THEN NoTaskMetric
  ELSE
    LET m == Get(task_data, "metrics", JObj(EmptyDict)).o
        reservedCpus == Get(m, "cpusReserved", JNum(0))
        avgCpu == Get(m, "cpusAverage", JNum(0))
        maxCpu == Get(m, "cpusMaximum", JNum(0))
        reservedMemory == Get(m, "memoryReservedGiB", JNum(0))
        avgMemory == Get(m, "memoryAverageGiB", JNum(0))
        maxMemory == Get(m, "memoryMaximumGiB", JNum(0))
        cpuEfficiencyRatio == EfficiencyRatio(avgCpu, reservedCpus)
        maxCpuEfficiencyRatio == EfficiencyRatio(maxCpu, reservedCpus)
        memoryEfficiencyRatio == EfficiencyRatio(avgMemory, reservedMemory)
        maxMemoryEfficiencyRatio == EfficiencyRatio(maxMemory, reservedMemory)
    IN [kind |-> "task",
        taskName |-> Get(task_data, "name", JStr("unknown")),
        taskArn |-> Get(task_data, "arn", JStr("")),
        allocatedCpus |-> Get(task_data, "cpus", JNum(0)),
        allocatedMemoryGiB |-> Get(task_data, "memory", JNum(0)),
        instanceType |-> Get(task_data, "instanceType", JStr("")),
        reservedCpus |-> reservedCpus,
        avgCpuUtilization |-> avgCpu,
        maxCpuUtilization |-> maxCpu,
        reservedMemoryGiB |-> reservedMemory,
        avgMemoryUtilizationGiB |-> avgMemory,
        maxMemoryUtilizationGiB |-> maxMemory,
        cpuEfficiencyRatio |-> cpuEfficiencyRatio,
        maxCpuEfficiencyRatio |-> maxCpuEfficiencyRatio,
        memoryEfficiencyRatio |-> memoryEfficiencyRatio,
        maxMemoryEfficiencyRatio |-> maxMemoryEfficiencyRatio,
        wastedCpus |-> Max(0, reservedCpus.n - avgCpu.n),
        wastedMemoryGiB |-> Max(0, reservedMemory.n - avgMemory.n),
        isOverProvisioned |->
          BelowHalf(cpuEfficiencyRatio) \/ BelowHalf(memoryEfficiencyRatio),
        isUnderProvisioned |->
          AboveNineTenths(maxCpuEfficiencyRatio)
            \/ AboveNineTenths(maxMemoryEfficiencyRatio)]

\* a line of the manifest stream: free text, text in braces that json.loads
\* rejects, or a JSON object
TextLine == [kind |-> "text", obj |-> EmptyDict]
MalformedLine == [kind |-> "malformed", obj |-> EmptyDict]
JsonLine(d) == [kind |-> "json", obj |-> d]

\* the two shapes _parse_manifest_for_analysis looks for, by keys alone
IsRunObject(d) == {"workflow", "metrics", "name"} \subseteq DOMAIN d /\ "cpus" \notin DOMAIN d
IsTaskObject(d) == {"cpus", "memory", "instanceType"} \subseteq DOMAIN d

NoRunDetails == [kind |-> "none"]
\* parsed_message.get('metrics', {}).get('runningSeconds', 0) raises when the
\* metrics value is no object
RunDetailsRaises(d) == Get(d, "metrics", JObj(EmptyDict)).t # "obj"
\* the run_details of a run-level object
RunDetails(d) ==
  [kind |-> "run",
   arn |-> Get(d, "arn", JStr("")),
   runningSeconds |-> Get(Get(d, "metrics", JObj(EmptyDict)).o, "runningSeconds", JNum(0)),
   storageType |-> Get(d, "storageType", JStr(""))]

RECURSIVE ParseEventsToFirstBadLine(_, _, _)
\* not the code: a loop that a message that is no JSON object ends
ParseEventsToFirstBadLine(events, task_metrics, run_details) ==
  IF events = <<>> THEN [task_metrics |-> task_metrics, run_details |-> run_details]
  ELSE
    LET line == Head(events).message.tail
        rest == Tail(events)
    IN IF line.kind # "json"
         THEN [task_metrics |-> task_metrics, run_details |-> run_details]
       ELSE IF IsRunObject(line.obj)
         THEN IF RunDetailsRaises(line.obj)
                THEN ParseEventsToFirstBadLine(rest, task_metrics, run_details)
                ELSE ParseEventsToFirstBadLine(rest, task_metrics, RunDetails(line.obj))
       ELSE IF IsTaskObject(line.obj)
         THEN LET task_metric == ExtractTaskMetricsFromManifest(line.obj)
              IN IF task_metric.kind = "none"
                   THEN ParseEventsToFirstBadLine(rest, task_metrics, run_details)
                   ELSE ParseEventsToFirstBadLine(rest, Append(task_metrics, task_metric),
                                                  run_details)
       ELSE ParseEventsToFirstBadLine(rest, task_metrics, run_details)

\* the for loop over log_events: every message is tried on its own, and one
\* that raises is passed over
RECURSIVE ParseEvents(_, _, _)
ParseEvents(events, task_metrics, run_details) ==
  IF events = <<>> THEN [task_metrics |-> task_metrics, run_details |-> run_details]
  ELSE
    LET line == Head(events).message.tail
        rest == Tail(events)
    IN IF line.kind # "json" THEN ParseEvents(rest, task_metrics, run_details)
       ELSE IF IsRunObject(line.obj)
         THEN IF RunDetailsRaises(line.obj)
                THEN ParseEvents(rest, task_metrics, run_details)
                ELSE ParseEvents(rest, task_metrics, RunDetails(line.obj))
       ELSE IF IsTaskObject(line.obj)
         THEN LET task_metric == ExtractTaskMetricsFromManifest(line.obj)
              IN IF task_metric.kind = "none"
                   THEN ParseEvents(rest, task_metrics, run_details)
                   ELSE ParseEvents(rest, Append(task_metrics, task_metric), run_details)
       ELSE ParseEvents(rest, task_metrics, run_details)

\* sum(task.get(field, 0) for task in task_metrics)
RECURSIVE Total(_, _)
\* not the code: a total that counts the first task only
TotalOfFirst(task_metrics, field) ==
  IF task_metrics = <<>> THEN 0 ELSE Head(task_metrics)[field].n
Total(task_metrics, field) ==
  IF task_metrics = <<>> THEN 0
  ELSE Head(task_metrics)[field].n + Total(Tail(task_metrics), field)
\* the sum raises TypeError on a value that is no number
TotalRaises(task_metrics, field) ==
  \E i \in 1..Len(task_metrics) : ~IsNum(task_metrics[i][field])

\* `total_actual / total_allocated if total_allocated > 0 else 0`
OverallEfficiency(actual, allocated) ==
  IF allocated > 0 THEN Ratio(actual, allocated) ELSE ZeroRatio

\* not the code: a parser that takes a page without events for a manifest
NoLogEventsNever(events) == FALSE
\* `if not log_events:` return None
NoLogEvents(events) == events = <<>>

\* what _parse_manifest_for_analysis hands back, and what it told the context
ParseOutcome(analysis, ctx) == [analysis |-> analysis, ctx |-> ctx]
NoRunAnalysis == [kind |-> "none"]

\* _parse_manifest_for_analysis
ParseManifestForAnalysis(rid, response, events) ==
  IF NoLogEvents(events) THEN ParseOutcome(NoRunAnalysis, <<>>)
  ELSE
    LET parsed == ParseEvents(events, <<>>, NoRunDetails)
        task_metrics == parsed.task_metrics
    IN IF \/ TotalRaises(task_metrics, "allocatedCpus")
          \/ TotalRaises(task_metrics, "allocatedMemoryGiB")
         THEN ParseOutcome(NoRunAnalysis,
                <<Message("Error parsing manifest for run", <<rid>>, "TypeError")>>)
       ELSE
         LET total_allocated_cpus == Total(task_metrics, "allocatedCpus")
             total_allocated_memory == Total(task_metrics, "allocatedMemoryGiB")
             total_actual_cpu_usage == Total(task_metrics, "avgCpuUtilization")
             total_actual_memory_usage == Total(task_metrics, "avgMemoryUtilizationGiB")
         IN ParseOutcome(
              [kind |-> "analysis",
               runInfo |-> [runId |-> rid, status |-> response.status,
                            creationTime |-> GetTimeOrEmpty(response.creationTime),
                            startTime |-> GetTimeOrEmpty(response.startTime),
                            stopTime |-> GetTimeOrEmpty(response.stopTime)],
               runDetails |-> parsed.run_details,
               taskMetrics |-> task_metrics,
               summary |->
                 [totalTasks |-> Len(task_metrics),
                  totalAllocatedCpus |-> total_allocated_cpus,
                  totalAllocatedMemoryGiB |-> total_allocated_memory,
                  totalActualCpuUsage |-> total_actual_cpu_usage,
                  totalActualMemoryUsageGiB |-> total_actual_memory_usage,
                  overallCpuEfficiency |->
                    OverallEfficiency(total_actual_cpu_usage, total_allocated_cpus),
                  overallMemoryEfficiency |->
                    OverallEfficiency(total_actual_memory_usage, total_allocated_memory),
                  manifestLogCount |-> Len(events)]],
              <<>>)

\* prompts/workflow_analysis.py: the for loop of its own parser
RECURSIVE PromptParseEvents(_, _, _)
PromptParseEvents(events, task_metrics, run_details) ==
  IF events = <<>> THEN [task_metrics |-> task_metrics, run_details |-> run_details]
  ELSE
    LET line == Head(events).message.tail
        rest == Tail(events)
    IN IF line.kind # "json" THEN PromptParseEvents(rest, task_metrics, run_details)
       ELSE IF IsRunObject(line.obj)
         THEN IF RunDetailsRaises(line.obj)
                THEN PromptParseEvents(rest, task_metrics, run_details)
                ELSE PromptParseEvents(rest, task_metrics, RunDetails(line.obj))
       ELSE IF IsTaskObject(line.obj)
         THEN LET task_metric == PromptExtractTaskMetricsFromManifest(line.obj)
              IN IF task_metric.kind = "none"
                   THEN PromptParseEvents(rest, task_metrics, run_details)
                   ELSE PromptParseEvents(rest, Append(task_metrics, task_metric), run_details)
       ELSE PromptParseEvents(rest, task_metrics, run_details)

\* prompts/workflow_analysis.py: its own _parse_manifest_for_analysis, which has
\* no context to tell of a failure
PromptParseManifestForAnalysis(rid, response, events) ==
  IF NoLogEvents(events) THEN ParseOutcome(NoRunAnalysis, <<>>)
  ELSE
    LET parsed == PromptParseEvents(events, <<>>, NoRunDetails)
        task_metrics == parsed.task_metrics
    IN IF \/ TotalRaises(task_metrics, "allocatedCpus")
          \/ TotalRaises(task_metrics, "allocatedMemoryGiB")
         THEN ParseOutcome(NoRunAnalysis, <<>>)
       ELSE
         LET total_allocated_cpus == Total(task_metrics, "allocatedCpus")
             total_allocated_memory == Total(task_metrics, "allocatedMemoryGiB")
             total_actual_cpu_usage == Total(task_metrics, "avgCpuUtilization")
             total_actual_memory_usage == Total(task_metrics, "avgMemoryUtilizationGiB")
         IN ParseOutcome(
              [kind |-> "analysis",
               runInfo |-> [runId |-> rid, status |-> response.status,
                            creationTime |-> GetTimeOrEmpty(response.creationTime),
                            startTime |-> GetTimeOrEmpty(response.startTime),
                            stopTime |-> GetTimeOrEmpty(response.stopTime)],
               runDetails |-> parsed.run_details,
               taskMetrics |-> task_metrics,
               summary |->
                 [totalTasks |-> Len(task_metrics),
                  totalAllocatedCpus |-> total_allocated_cpus,
                  totalAllocatedMemoryGiB |-> total_allocated_memory,
                  totalActualCpuUsage |-> total_actual_cpu_usage,
                  totalActualMemoryUsageGiB |-> total_actual_memory_usage,
                  overallCpuEfficiency |->
                    OverallEfficiency(total_actual_cpu_usage, total_allocated_cpus),
                  overallMemoryEfficiency |->
                    OverallEfficiency(total_actual_memory_usage, total_allocated_memory),
                  manifestLogCount |-> Len(events)]],
              <<>>)

(* ---------------------- manifests the backend holds -------------------- *)
Units == 0..MaxUnits

\* the cpu and the memory figures of a task's metrics object
CpuSide(reserved, avg, max) ==
  ("cpusReserved" :> reserved) @@ ("cpusAverage" :> avg) @@ ("cpusMaximum" :> max)
MemorySide(reserved, avg, max) ==
  ("memoryReservedGiB" :> reserved) @@ ("memoryAverageGiB" :> avg)
    @@ ("memoryMaximumGiB" :> max)
\* every reservation and usage up to MaxUnits; the reservation missing; null;
\* a reservation below zero
CpuSides ==
     {CpuSide(JNum(u[1]), JNum(u[2]), JNum(u[3])) :
        u \in {v \in Units \X Units \X Units : v[3] \in {v[2], MaxUnits}}}
  \cup {("cpusAverage" :> JNum(a)) @@ ("cpusMaximum" :> JNum(a)) : a \in Units}
  \cup {EmptyDict, CpuSide(JNull, JNum(1), JNum(1)), CpuSide(JNum(-1), JNum(1), JNum(1))}
MemorySides ==
  {EmptyDict,
   MemorySide(JNum(0), JNum(1), JNum(1)),
   MemorySide(JNum(2), JNum(0), JNum(2)),
   MemorySide(JNum(2), JNum(1), JNum(1)),
   MemorySide(JNum(2), JNum(2), JNum(2)),
   MemorySide(JStr("2"), JNum(1), JNum(1))}
\* the value under a task object's metrics key
MetricsValues ==
  {JObj(c @@ m) : c \in CpuSides, m \in MemorySides} \cup {JNull, JStr("n/a")}

\* a task-level object: cpus, memory, instanceType, and metrics unless left out
TaskObject(arn, cpus, memory) ==
  ("name" :> JStr("task")) @@ ("arn" :> JStr(arn)) @@ ("cpus" :> cpus)
    @@ ("memory" :> memory) @@ ("instanceType" :> JStr("omics.c.large"))
WithMetrics(d, v) == ("metrics" :> v) @@ d
Allocations ==
  {<<JNum(0), JNum(0)>>, <<JNum(MaxUnits), JNum(MaxUnits)>>, <<JNum(MaxUnits), JNum(1)>>,
   <<JNull, JNum(MaxUnits)>>, <<JNum(MaxUnits), JStr("4 GiB")>>}
TaskObjects ==
  {WithMetrics(TaskObject("arn-1", a[1], a[2]), v) : a \in Allocations, v \in MetricsValues}
    \cup {TaskObject("arn-1", a[1], a[2]) : a \in Allocations}

\* a run-level object: workflow, metrics, name and no cpus
RunObject(arn, metrics) ==
  ("name" :> JStr("run")) @@ ("arn" :> JStr(arn)) @@ ("workflow" :> JStr("wf"))
    @@ ("metrics" :> metrics)
RunObjects ==
  {RunObject("arn-1", v) :
     v \in {JObj("runningSeconds" :> JNum(MaxUnits)), JObj(EmptyDict), JNull, JStr("n/a")}}
\* objects of neither shape, and one with the keys of both
OtherObjects ==
  {"name" :> JStr("x"),
   ("cpus" :> JNum(1)) @@ RunObject("arn-1", JObj(EmptyDict)),
   ("cpus" :> JNum(1)) @@ ("memory" :> JNum(1)),
   WithMetrics(TaskObject("arn-1", JNum(1), JNum(1)), JObj(EmptyDict))
     @@ ("workflow" :> JStr("wf"))}
ManifestLines ==
  {TextLine, MalformedLine} \cup {JsonLine(d) : d \in TaskObjects \cup RunObjects \cup OtherObjects}

\* the lines that streams of several events are made of
CoreLines ==
  {TextLine,
   MalformedLine,
   JsonLine(RunObject("arn-1", JObj("runningSeconds" :> JNum(MaxUnits)))),
   JsonLine(RunObject("arn-2", JNull)),
   JsonLine(WithMetrics(TaskObject("arn-3", JNum(2), JNum(2)),
                        JObj(CpuSide(JNum(2), JNum(1), JNum(2))
                               @@ MemorySide(JNum(2), JNum(1), JNum(2))))),
   JsonLine(WithMetrics(TaskObject("arn-4", JNum(1), JNum(0)),
                        JObj(CpuSide(JNum(0), JNum(1), JNum(1))))),
   JsonLine(WithMetrics(TaskObject("arn-5", JNum(1), JNum(1)), JNull)),
   JsonLine(TaskObject("arn-6", JNull, JNum(1)))}

RECURSIVE SeqsUpTo(_, _)
SeqsUpTo(S, n) ==
  IF n = 0 THEN {<<>>}
  ELSE LET shorter == SeqsUpTo(S, n - 1)
       IN shorter \cup {Append(q, x) : q \in shorter, x \in S}

\* the manifest streams: any one line, or up to MaxEvents core lines
ManifestStreams == {<<l>> : l \in ManifestLines} \cup SeqsUpTo(CoreLines, MaxEvents)

(* ------------------------------ state ---------------------------------- *)
VARIABLES
  pc,              \* where the tool call stands
  tool,            \* the tool that was called
  run_id,          \* its run_id argument
  omitted,         \* what an optional argument left out of a log tool call is
  run_response,    \* diagnose_run_failure: the get_run response
  engine_logs,     \* diagnose_run_failure: engine_logs
  manifest_logs,   \* diagnose_run_failure: manifest_logs
  failed_tasks,    \* diagnose_run_failure: failed_tasks
  next_token,      \* diagnose_run_failure: next_token
  tasks_response,  \* diagnose_run_failure: the page being walked
  task_index,      \* diagnose_run_failure: items of the page already handled
  result,          \* what the tool returned
  raised,          \* the exception the tool raised
  ctx_errors,      \* the messages given to ctx.error
  calls,           \* the calls made so far, each with what came back
  log_request,     \* a log tool: the arguments it was called with
  log_backend,     \* a log tool: what CloudWatch did with the call
  run_ids,         \* analyze_run: its run_ids argument
  include_analysis_prompt, \* analyze_run: its include_analysis_prompt argument
  run_index,       \* analyze_run: ids of run_ids already handled
  analysis_results, \* analyze_run: analysis_results
  prompt_data,     \* _get_run_analysis_data: what it returned
  log_events,      \* _parse_manifest_for_analysis: the events of manifest_logs
  run_analysis     \* _parse_manifest_for_analysis: what it returned

vars == <<pc, tool, run_id, omitted, run_response, engine_logs, manifest_logs, failed_tasks,
          next_token, tasks_response, task_index, result, raised, ctx_errors, calls,
          log_request, log_backend, run_ids, include_analysis_prompt, run_index,
          analysis_results, prompt_data, log_events, run_analysis>>

\* one entry of `calls`
Call(op, key, token, limit, exc, returned, next) ==
  [op |-> op, key |-> key, token |-> token, limit |-> limit,
   raised |-> exc, returned |-> returned, next |-> next]

CallsOf(op) == SelectSeq(calls, LAMBDA c : c.op = op)

NoResult == [kind |-> "none"]
\* before any log tool is called
NoLogRequest == LogRequest(None, None, 0, None, FALSE)
NoLogAnswer == LogAnswer(NoError, NoError, <<>>, None)
\* before analyze_run builds analysis_results
NoAnalysisResults == [kind |-> "none"]

Init ==
  /\ pc = "idle"
  /\ tool = None
  /\ run_id = None
  /\ omitted = None
  /\ run_response = NoRunResponse
  /\ engine_logs = <<>>
  /\ manifest_logs = <<>>
  /\ failed_tasks = <<>>
  /\ next_token = None
  /\ tasks_response = NoTasksResponse
  /\ task_index = 0
  /\ result = NoResult
  /\ raised = NoError
  /\ ctx_errors = <<>>
  /\ calls = <<>>
  /\ log_request = NoLogRequest
  /\ log_backend = NoLogAnswer
  /\ run_ids = <<>>
  /\ include_analysis_prompt = FALSE
  /\ run_index = 0
  /\ analysis_results = NoAnalysisResults
  /\ prompt_data = NoResult
  /\ log_events = <<>>
  /\ run_analysis = NoRunAnalysis

diagnose_locals == <<run_response, engine_logs, manifest_logs, failed_tasks,
                     next_token, tasks_response, task_index>>
reader_locals == <<log_request, log_backend>>
analyze_locals == <<run_ids, include_analysis_prompt, run_index, analysis_results,
                    prompt_data>>
parse_locals == <<log_events, run_analysis>>

(* ----------------------- diagnose_run_failure -------------------------- *)
\* limit= of the log fetches and maxResults= of the task listing
LogLimit == 100
MaxResults == 100

\* a slip: every run that has not completed is diagnosed
IsFailedOrRunning(response) == response.status # "COMPLETED"

\* `run_response.get('status') != 'FAILED'` is the early return
IsFailed(response) == response.status = "FAILED"

\* the report of a run that did not fail
NotFailedReport(response) ==
  [kind |-> "not_failed", status |-> response.status,
   message |-> Message("Run is not in FAILED state. Current status:",
                       <<response.status>>, "")]

\* a slip: the message is built without the run id
DiagnoseErrorReportNoRun(rid, e) ==
  <<Message("Unexpected error diagnosing run failure", <<>>, e.text)>>

\* the three outer except clauses: what goes to ctx.error before the re-raise
DiagnoseErrorReport(rid, e) ==
  <<Message(IF e.class \in {"ClientError", "BotoCoreError"}
              THEN "AWS error diagnosing run failure for run"
              ELSE "Unexpected error diagnosing run failure for run",
            <<rid>>, e.text)>>

\* an exception reaching the outer try: reported, then re-raised
DiagnoseFails(e) ==
  /\ ctx_errors' = ctx_errors \o DiagnoseErrorReport(run_id, e)
  /\ raised' = e
  /\ pc' = "raised"
  /\ UNCHANGED result

\* [event.get('message', '') for event in response.get('events', [])]
MessagesOf(events) == [i \in 1..Len(events) |-> events[i].message]

\* a slip: the failure is logged and the list is left empty
EngineLogsOnErrorEmpty(e) == <<>>

EngineLogsOnError(e) == <<Message(ENGINE_ERROR, <<>>, e.text)>>
ManifestLogsOnError(e) == <<Message(MANIFEST_ERROR, <<>>, e.text)>>
TaskLogsOnError(task_id, e) == <<Message(TASK_ERROR, <<task_id>>, e.text)>>
NoUuidLogs == <<Message(NO_UUID, <<>>, "")>>

\* a slip: `if run_uuid is not None:` lets the empty uuid through
ShouldFetchManifestNotNone(run_uuid) == run_uuid # None

\* `if run_uuid:` guards the manifest fetch
ShouldFetchManifest(run_uuid) == Truthy(run_uuid)

\* a slip: the token of the task listing goes along to the log tools
DiagnoseLogRequestWithToken == LogRequest(omitted, omitted, LogLimit, next_token, FALSE)

\* the arguments diagnose_run_failure gives every log tool: limit and
\* start_from_head; start_time, end_time and next_token are left out
DiagnoseLogRequest == LogRequest(omitted, omitted, LogLimit, omitted, FALSE)

\* a slip: only log lines that were fetched are counted
FailedTaskEntryCountingFetched(task, task_logs) ==
  [taskId |-> task.taskId, name |-> task.name,
   statusMessage |-> IF task.statusMessage = None THEN "No status message"
                     ELSE task.statusMessage,
   logs |-> task_logs,
   logCount |-> Cardinality({i \in 1..Len(task_logs) : task_logs[i].phrase # TASK_ERROR})]

\* the dict appended to failed_tasks
FailedTaskEntry(task, task_logs) ==
  [taskId |-> task.taskId, name |-> task.name,
   statusMessage |-> IF task.statusMessage = None THEN "No status message"
                     ELSE task.statusMessage,
   logs |-> task_logs, logCount |-> Len(task_logs)]

\* a slip: a task whose logs could not be read is left out
AppendFailedTaskWithLogs(tasks, entry) ==
  IF Len(entry.logs) = 1 /\ entry.logs[1].phrase = TASK_ERROR THEN tasks
  ELSE Append(tasks, entry)

\* a slip: one task_logs list shared by all entries, so the last one read wins
AppendFailedTaskSharedLogs(tasks, entry) ==
  Append([i \in 1..Len(tasks) |->
            [tasks[i] EXCEPT !.logs = entry.logs, !.logCount = entry.logCount]],
         entry)

\* a slip: the newest entry is put first
AppendFailedTaskFirst(tasks, entry) == <<entry>> \o tasks

\* failed_tasks.append(...)
AppendFailedTask(tasks, entry) == Append(tasks, entry)

\* a slip: the loop is left after the first page
MoreTasksNever(token) == FALSE

\* `if not next_token: break`
MoreTasks(token) == Truthy(token)

\* list_tasks_params: startingToken only when a token is held
StartingToken(token) == IF Truthy(token) THEN token ELSE None

\* a slip: any non-empty list counts as logs
HasEngineLogsNonEmpty(logs) == Len(logs) > 0

HasEngineLogs(logs) == Len(logs) > 0 /\ ~ListContains(logs, ENGINE_ERROR)
HasManifestLogs(run_uuid, logs) ==
  Truthy(run_uuid) /\ Len(logs) > 0 /\ ~ListContains(logs, MANIFEST_ERROR)

\* the diagnosis dict
Diagnosis(rid, response, elogs, mlogs, tasks) ==
  [kind |-> "diagnosis",
   runId |-> rid,
   runUuid |-> response.uuid,
   status |-> response.status,
   failureReason |-> IF response.failureReason = None THEN "No failure reason provided"
                     ELSE response.failureReason,
   creationTime |-> IsoformatIfDatetime(response.creationTime),
   startTime |-> IsoformatIfDatetime(response.startTime),
   stopTime |-> IsoformatIfDatetime(response.stopTime),
   engineLogs |-> elogs,
   engineLogCount |-> Len(elogs),
   manifestLogs |-> mlogs,
   manifestLogCount |-> Len(mlogs),
   failedTasks |-> tasks,
   failedTaskCount |-> Len(tasks),
   summary |-> [totalFailedTasks |-> Len(tasks),
                hasManifestLogs |-> HasManifestLogs(response.uuid, mlogs),
                hasEngineLogs |-> HasEngineLogs(elogs)]]

RECURSIVE Returned(_)
\* how many items the calls of a list have returned, all together
Returned(cs) == IF cs = <<>> THEN 0 ELSE Len(Head(cs).returned) + Returned(Tail(cs))

\* the tool is called
DiagnoseCall ==
  /\ pc = "idle"
  /\ \E rid \in RunIds : run_id' = rid
  /\ \E d \in OmittedArgs : omitted' = d
  /\ tool' = "diagnose_run_failure"
  /\ pc' = "get_omics_client"
  /\ UNCHANGED <<diagnose_locals, result, raised, ctx_errors, calls>>
  /\ UNCHANGED <<reader_locals, analyze_locals, parse_locals>>

\* omics_client = get_omics_client()
DiagnoseGetClient ==
  /\ pc = "get_omics_client"
  /\ \/ /\ pc' = "get_run"
        /\ UNCHANGED <<result, raised, ctx_errors>>
     \/ DiagnoseFails(OtherError("AWS session error"))
  /\ UNCHANGED <<reader_locals, analyze_locals, parse_locals>>
  /\ UNCHANGED <<tool, run_id, omitted, diagnose_locals, calls>>

\* run_response = omics_client.get_run(id=run_id), and the early return
DiagnoseGetRun ==
  /\ pc = "get_run"
  /\ \/ \E e \in OmicsErrors :
          /\ calls' = Append(calls, Call("get_run", <<run_id>>, None, 0, e, <<>>, None))
          /\ DiagnoseFails(e)
          /\ UNCHANGED run_response
     \/ \E response \in RunResponses :
          /\ calls' = Append(calls, Call("get_run", <<run_id>>, None, 0, NoError, <<>>, None))
          /\ run_response' = response
          /\ IF IsFailed(response)
               THEN pc' = "engine_logs" /\ UNCHANGED result
               ELSE pc' = "done" /\ result' = NotFailedReport(response)
          /\ UNCHANGED <<raised, ctx_errors>>
  /\ UNCHANGED <<reader_locals, analyze_locals, parse_locals>>
  /\ UNCHANGED <<tool, run_id, omitted, engine_logs, manifest_logs, failed_tasks,
                 next_token, tasks_response, task_index>>

\* the engine logs, or the error string in their place
DiagnoseEngineLogs ==
  /\ pc = "engine_logs"
  /\ \E answer \in LogBackends :
       LET r == LogTool("engine", <<run_id>>, DiagnoseLogRequest, answer) IN
         /\ engine_logs' = IF r.raised = NoError THEN MessagesOf(r.events)
                           ELSE EngineLogsOnError(r.raised)
         /\ ctx_errors' = ctx_errors \o r.ctx
         /\ calls' = Append(calls, Call("get_run_engine_logs", <<run_id>>,
                                        DiagnoseLogRequest.next_token, LogLimit, r.raised, r.events, None))
  /\ pc' = "manifest_logs"
  /\ UNCHANGED <<reader_locals, analyze_locals, parse_locals>>
  /\ UNCHANGED <<tool, run_id, omitted, run_response, manifest_logs, failed_tasks,
                 next_token, tasks_response, task_index, result, raised>>

\* the manifest logs when the run has a uuid, the fixed sentence otherwise
DiagnoseManifestLogs ==
  /\ pc = "manifest_logs"
  /\ IF ShouldFetchManifest(run_response.uuid)
       THEN \E answer \in LogBackends :
              LET r == LogTool("manifest", <<run_id>>, DiagnoseLogRequest, answer) IN
                /\ manifest_logs' = IF r.raised = NoError THEN MessagesOf(r.events)
                                     ELSE ManifestLogsOnError(r.raised)
                /\ ctx_errors' = ctx_errors \o r.ctx
                /\ calls' = Append(calls, Call("get_run_manifest_logs",
                                               <<run_id, run_response.uuid>>,
                                               DiagnoseLogRequest.next_token, LogLimit, r.raised, r.events, None))
       ELSE /\ manifest_logs' = NoUuidLogs
            /\ UNCHANGED <<ctx_errors, calls>>
  /\ pc' = "list_tasks"
  /\ UNCHANGED <<reader_locals, analyze_locals, parse_locals>>
  /\ UNCHANGED <<tool, run_id, omitted, run_response, engine_logs, failed_tasks,
                 next_token, tasks_response, task_index, result, raised>>

\* tasks_response = omics_client.list_run_tasks(**list_tasks_params)
DiagnoseListTasks ==
  /\ pc = "list_tasks"
  /\ \/ \E e \in OmicsErrors :
          /\ calls' = Append(calls, Call("list_run_tasks", <<run_id, "FAILED">>,
                                         StartingToken(next_token), MaxResults,
                                         e, <<>>, None))
          /\ DiagnoseFails(e)
          /\ UNCHANGED <<tasks_response, task_index>>
     \/ \E page \in TaskPages(Returned(CallsOf("list_run_tasks")),
                               Len(CallsOf("list_run_tasks"))) :
          /\ calls' = Append(calls, Call("list_run_tasks", <<run_id, "FAILED">>,
                                         StartingToken(next_token), MaxResults,
                                         NoError, page.items, page.nextToken))
          /\ tasks_response' = page
          /\ task_index' = 0
          /\ pc' = "task_loop"
          /\ UNCHANGED <<result, raised, ctx_errors>>
  /\ UNCHANGED <<reader_locals, analyze_locals, parse_locals>>
  /\ UNCHANGED <<tool, run_id, omitted, run_response, engine_logs, manifest_logs,
                 failed_tasks, next_token>>

\* one turn of `for task in tasks_response.get('items', [])`
DiagnoseTaskLogs ==
  /\ pc = "task_loop"
  /\ task_index < Len(tasks_response.items)
  /\ LET task == tasks_response.items[task_index + 1] IN
       \E answer \in TaskLogBackends :
         LET r == LogTool("task", <<run_id, task.taskId>>, DiagnoseLogRequest, answer)
             task_logs == IF r.raised = NoError THEN MessagesOf(r.events)
                          ELSE TaskLogsOnError(task.taskId, r.raised)
         IN /\ failed_tasks' = AppendFailedTask(failed_tasks, FailedTaskEntry(task, task_logs))
            /\ ctx_errors' = ctx_errors \o r.ctx
            /\ calls' = Append(calls, Call("get_task_logs", <<run_id, task.taskId>>,
                                           DiagnoseLogRequest.next_token, LogLimit, r.raised, r.events, None))
  /\ task_index' = task_index + 1
  /\ UNCHANGED <<reader_locals, analyze_locals, parse_locals>>
  /\ UNCHANGED <<pc, tool, run_id, omitted, run_response, engine_logs, manifest_logs,
                 next_token, tasks_response, result, raised>>

\* the page is done: keep its token, and go on or leave the loop
DiagnoseNextPage ==
  /\ pc = "task_loop"
  /\ task_index = Len(tasks_response.items)
  /\ next_token' = tasks_response.nextToken
  /\ pc' = IF MoreTasks(tasks_response.nextToken) THEN "list_tasks" ELSE "assemble"
  /\ UNCHANGED <<reader_locals, analyze_locals, parse_locals>>
  /\ UNCHANGED <<tool, run_id, omitted, run_response, engine_logs, manifest_logs, failed_tasks,
                 tasks_response, task_index, result, raised, ctx_errors, calls>>

\* the diagnosis is put together and returned
DiagnoseReturn ==
  /\ pc = "assemble"
  /\ result' = Diagnosis(run_id, run_response, engine_logs, manifest_logs, failed_tasks)
  /\ pc' = "done"
  /\ UNCHANGED <<reader_locals, analyze_locals, parse_locals>>
  /\ UNCHANGED <<tool, run_id, omitted, diagnose_locals, raised, ctx_errors, calls>>

(* --------------------------- the log tools ----------------------------- *)
ToolName(t) ==
  CASE t = "run" -> "get_run_logs"
    [] t = "engine" -> "get_run_engine_logs"
    [] t = "manifest" -> "get_run_manifest_logs"
    [] OTHER -> "get_task_logs"

\* what a log tool hands back
LogsResult(r) ==
  [kind |-> "logs", events |-> r.events, nextToken |-> r.nextToken, error |-> r.error]

\* a log read ends: returned or raised, the context told, and the get_log_events
\* request written down with what CloudWatch did
LogReadEnds(name, key, req, answer, r) ==
  /\ tool' = name
  /\ log_request' = req
  /\ log_backend' = answer
  /\ IF r.raised = NoError
       THEN pc' = "done" /\ result' = LogsResult(r) /\ UNCHANGED raised
       ELSE pc' = "raised" /\ raised' = r.raised /\ UNCHANGED result
  /\ ctx_errors' = ctx_errors \o r.ctx
  /\ calls' = IF r.requested
                THEN Append(calls, Call("get_log_events", key, req.next_token, req.limit,
                                        answer.exc, answer.events,
                                        answer.nextForwardToken))
                ELSE calls

\* the requests of a caller of the log tools
LogRequests ==
  {LogRequest(st, et, LogLimit, tok, head) :
     st \in TimeArgs, et \in TimeArgs,
     tok \in {None, "f/tok"}, head \in BOOLEAN}

\* get_run_logs, get_run_engine_logs, get_run_manifest_logs or get_task_logs is called
LogToolCall ==
  /\ pc = "idle"
  /\ \E t \in LogTools, rid \in RunIds, req \in LogRequests, answer \in LogBackends :
       LET key == IF t = "task" THEN <<t, rid, TaskIdOf(1)>>
                  ELSE IF t = "manifest" THEN <<t, rid, "uuid-1">> ELSE <<t, rid>>
           subject == IF t = "task" THEN <<rid, TaskIdOf(1)>> ELSE <<rid>>
       IN /\ run_id' = rid
          /\ LogReadEnds(ToolName(t), key, req, answer, LogTool(t, subject, req, answer))
  /\ UNCHANGED <<omitted, diagnose_locals, analyze_locals, parse_locals>>

\* _get_run_manifest_logs_internal is called
ManifestInternalCall ==
  /\ pc = "idle"
  /\ \E rid \in RunIds, req \in LogRequests, answer \in LogBackends :
       /\ run_id' = rid
       /\ LogReadEnds("_get_run_manifest_logs_internal", <<"group", "uuid-1">>, req,
                      answer, GetRunManifestLogsInternal(req, answer))
  /\ UNCHANGED <<omitted, diagnose_locals, analyze_locals, parse_locals>>

(* ------------------------ _get_logs_from_stream ------------------------ *)
\* instants the backend may stamp an event with: the epoch, the turn of 2022 and
\* the two minutes after it, the last millisecond of a leap day, the first
\* millisecond of another, the last second of a year
EpochSamples ==
  {EpochMs(0, 0), EpochMs(1640995200, 0), EpochMs(1640995260, 0), EpochMs(1640995320, 0),
   EpochMs(1709251199, 999), EpochMs(951782400, 1), EpochMs(1704067199, 0)}
StreamMessages == {"Starting workflow execution", "Task completed successfully"}
\* the pages of a stream: up to MaxEvents events, in any order of time
StreamPages ==
  SeqsUpTo({Event(ts, m) : ts \in EpochSamples, m \in StreamMessages}, MaxEvents)
StreamBackends ==
     {LogAnswer(NoError, e, <<>>, None) : e \in {ResourceNotFound, BotoCoreError}}
  \cup {LogAnswer(NoError, NoError, ev, fwd) : ev \in StreamPages, fwd \in {None, "f/tok"}}

\* _get_logs_from_stream is called on a stream
GetLogsFromStreamCall ==
  /\ pc = "idle"
  /\ \E rid \in RunIds, head \in BOOLEAN, answer \in StreamBackends :
       LET req == LogRequest(None, None, LogLimit, None, head)
       IN /\ run_id' = rid
          /\ LogReadEnds("_get_logs_from_stream", <<"run", rid>>, req, answer,
                         GetLogsFromStream(req, answer))
  /\ UNCHANGED <<omitted, diagnose_locals, analyze_locals, parse_locals>>

ReaderNext == GetLogsFromStreamCall
\* the reader alone, on every page
ReaderSpec == Init /\ [][ReaderNext]_vars

(* -------------------- _parse_manifest_for_analysis --------------------- *)
\* _parse_manifest_for_analysis is called with the events of a manifest stream
ParseManifestCall ==
  /\ pc = "idle"
  /\ \E rid \in RunIds, response \in {r \in RunResponses : Truthy(r.uuid)},
        stream \in ManifestStreams :
       LET events == TransformEvents(Stamped(stream))
           out == ParseManifestForAnalysis(rid, response, events)
       IN /\ run_id' = rid
          /\ run_response' = response
          /\ log_events' = events
          /\ run_analysis' = out.analysis
          /\ ctx_errors' = ctx_errors \o out.ctx
  /\ tool' = "_parse_manifest_for_analysis"
  /\ pc' = "done"
  /\ UNCHANGED <<omitted, engine_logs, manifest_logs, failed_tasks, next_token,
                 tasks_response, task_index, result, raised, calls>>
  /\ UNCHANGED <<reader_locals, analyze_locals>>

\* the parser of prompts/workflow_analysis.py is called with the same events
PromptParseManifestCall ==
  /\ pc = "idle"
  /\ \E rid \in RunIds, response \in {r \in RunResponses : Truthy(r.uuid)},
        stream \in ManifestStreams :
       LET events == TransformEvents(Stamped(stream))
           out == PromptParseManifestForAnalysis(rid, response, events)
       IN /\ run_id' = rid
          /\ run_response' = response
          /\ log_events' = events
          /\ run_analysis' = out.analysis
  /\ tool' = "prompts._parse_manifest_for_analysis"
  /\ pc' = "done"
  /\ UNCHANGED <<omitted, engine_logs, manifest_logs, failed_tasks, next_token,
                 tasks_response, task_index, result, raised, ctx_errors, calls>>
  /\ UNCHANGED <<reader_locals, analyze_locals>>

ManifestNext ==
  \/ ParseManifestCall
  \/ PromptParseManifestCall
\* the parser alone, on every manifest stream
ManifestSpec == Init /\ [][ManifestNext]_vars

(* ------------------------------ analyze_run ---------------------------- *)
\* the run ids of a call: distinct, so that their order can be seen
RunIdOf(k) == CASE k = 1 -> "run-1" [] k = 2 -> "run-2" [] k = 3 -> "run-3"
                [] k = 4 -> "run-4" [] OTHER -> "run-5"
RunIdLists == {[i \in 1..n |-> RunIdOf(i)] : n \in 0..MaxRuns}

\* get_run responses: a run with a uuid, one without, one with an empty uuid
AnalyzeRunResponses ==
  {RunResponse("COMPLETED", "uuid-1", None),
   RunResponse("COMPLETED", None, None),
   RunResponse("RUNNING", "", None)}

\* the manifest pages CloudWatch answers with: no event, malformed JSON and a
\* task, a run object and a task, a task whose cpus is null
AnalyzeStreams ==
  {<<>>,
   <<MalformedLine,
     JsonLine(WithMetrics(TaskObject("arn-3", JNum(2), JNum(2)),
                          JObj(CpuSide(JNum(2), JNum(1), JNum(2))
                                 @@ MemorySide(JNum(2), JNum(1), JNum(2)))))>>,
   <<JsonLine(RunObject("arn-1", JObj("runningSeconds" :> JNum(MaxUnits)))),
     JsonLine(WithMetrics(TaskObject("arn-4", JNum(1), JNum(0)),
                          JObj(CpuSide(JNum(0), JNum(1), JNum(1)))))>>,
   <<JsonLine(TaskObject("arn-6", JNull, JNum(1)))>>}
\* a page comes with a forward token when the stream goes on after it
AnalyzeLogBackends ==
     {LogAnswer(ClientCreationError, NoError, <<>>, None),
      LogAnswer(NoError, ResourceNotFound, <<>>, None)}
  \cup {LogAnswer(NoError, NoError, Stamped(ev), None) : ev \in AnalyzeStreams}
  \cup {LogAnswer(NoError, NoError, Stamped(ev), "f/tok") : ev \in AnalyzeStreams \ {<<>>}}

ManifestLimit == 1000
\* the arguments analyze_run gives get_run_manifest_logs_internal: the limit;
\* the rest are that function's plain defaults
AnalyzeLogRequest == LogRequest(None, None, ManifestLimit, None, TRUE)

\* get_run_manifest_logs_internal: the client, then the stream; an exception
\* is logged and re-raised, and the context is not told
get_run_manifest_logs_internal(req, answer) ==
  IF answer.client # NoError THEN Raise(answer.client, FALSE)
  ELSE GetLogsFromStream(req, answer)

\* _get_analysis_instructions: a literal
GetAnalysisInstructions ==
  [prompt |-> "Please analyze the AWS HealthOmics workflow run data provided above",
   analysis_focus_areas |->
     <<"resource_utilization_efficiency", "cost_optimization_opportunities",
       "performance_bottlenecks", "instance_type_optimization",
       "workflow_parallelization_opportunities">>,
   key_metrics_to_analyze |->
     <<"cpuEfficiencyRatio", "memoryEfficiencyRatio", "maxCpuEfficiencyRatio",
       "maxMemoryEfficiencyRatio", "wastedCpus", "wastedMemoryGiB", "isOverProvisioned",
       "isUnderProvisioned", "runningSeconds", "instanceType">>,
   optimization_thresholds |->
     [over_provisioned_threshold |-> Ratio(5, 10),
      under_provisioned_threshold |-> Ratio(9, 10),
      efficiency_target |-> Ratio(7, 10)]]

\* analysis_results without the analysis_instructions key
NoInstructions == [kind |-> "none"]

\* datetime.now(timezone.utc): what the clock reads when analyze_run starts
Clock == {Datetime(1640999000, 123456)}

\* not the code: results that count no requested run
NewAnalysisResultsUncounted(ids, now) ==
  [kind |-> "analysis_results", runs |-> <<>>,
   summary |-> [totalRuns |-> 0, analysisTimestamp |-> IsoFormat(now),
                analysisType |-> "manifest-based"],
   analysis_instructions |-> NoInstructions]
\* analysis_results as it is first built
NewAnalysisResults(ids, now) ==
  [kind |-> "analysis_results", runs |-> <<>>,
   summary |-> [totalRuns |-> Len(ids), analysisTimestamp |-> IsoFormat(now),
                analysisType |-> "manifest-based"],
   analysis_instructions |-> NoInstructions]

\* not the code: instructions written from the runs that were analysed
AttachInstructionsForRuns(results, include) ==
  IF include
    THEN [results EXCEPT !.analysis_instructions =
            [GetAnalysisInstructions EXCEPT !.prompt =
               IF results.runs = <<>> THEN "No run could be analyzed" ELSE @]]
    ELSE results
\* `if include_analysis_prompt:` analysis_results['analysis_instructions'] = ...
AttachInstructions(results, include) ==
  IF include THEN [results EXCEPT !.analysis_instructions = GetAnalysisInstructions]
  ELSE results

\* not the code: the newest analysis first
PrependRunAnalysis(runs, analysis) == <<analysis>> \o runs
\* analysis_results['runs'].append(run_analysis)
AppendRunAnalysis(runs, analysis) == Append(runs, analysis)

\* not the code: a loop that an exception ends
NextRunIndexStopOnError(index, count, failed) == IF failed THEN count ELSE index + 1
\* the for loop goes to the next id, after `continue` in the except as well
NextRunIndex(index, count, failed) == index + 1

\* analyze_run is called
AnalyzeCall ==
  /\ pc = "idle"
  /\ \E ids \in RunIdLists, include \in BOOLEAN :
       /\ run_ids' = ids
       /\ include_analysis_prompt' = include
  /\ tool' = "analyze_run"
  /\ pc' = "analyze_get_client"
  /\ UNCHANGED <<run_id, omitted, diagnose_locals, result, raised, ctx_errors, calls,
                 run_index, analysis_results, prompt_data>>
  /\ UNCHANGED <<reader_locals, parse_locals>>

\* the session and the omics client, then analysis_results; a failure here
\* reaches the outer except: reported, then re-raised
AnalyzeGetClient ==
  /\ pc = "analyze_get_client"
  /\ \/ /\ \E now \in Clock : analysis_results' = NewAnalysisResults(run_ids, now)
        /\ pc' = "analyze_loop"
        /\ UNCHANGED <<raised, ctx_errors>>
     \/ /\ ctx_errors' = Append(ctx_errors, Message("Error analyzing runs", <<>>,
                                                    "AWS session error"))
        /\ raised' = OtherError("AWS session error")
        /\ pc' = "raised"
        /\ UNCHANGED analysis_results
  /\ UNCHANGED <<tool, run_id, omitted, diagnose_locals, result, calls, run_ids,
                 include_analysis_prompt, run_index, prompt_data>>
  /\ UNCHANGED <<reader_locals, parse_locals>>

\* one turn of `for run_id in run_ids`: get_run, the manifest page, the parser;
\* an exception of any of them is logged and the loop goes on
AnalyzeProcessRun ==
  /\ pc = "analyze_loop"
  /\ run_index < Len(run_ids)
  /\ LET rid == run_ids[run_index + 1]
         GetRun(e, returned) == Call("get_run", <<rid>>, None, 0, e, returned, None)
     IN \/ \E e \in OmicsErrors :
             /\ calls' = Append(calls, GetRun(e, <<>>))
             /\ run_index' = NextRunIndex(run_index, Len(run_ids), TRUE)
             /\ UNCHANGED <<run_response, analysis_results, ctx_errors>>
        \/ \E response \in AnalyzeRunResponses :
             /\ run_response' = response
             /\ IF ~Truthy(response.uuid)
                  THEN /\ calls' = Append(calls, GetRun(NoError, <<response>>))
                       /\ run_index' = NextRunIndex(run_index, Len(run_ids), FALSE)
                       /\ UNCHANGED <<analysis_results, ctx_errors>>
                  ELSE \E answer \in AnalyzeLogBackends :
                    LET r == get_run_manifest_logs_internal(AnalyzeLogRequest, answer)
                        out == ParseManifestForAnalysis(rid, response, r.events)
                        fetch == Call("get_run_manifest_logs_internal",
                                      <<rid, response.uuid>>,
                                      AnalyzeLogRequest.next_token, AnalyzeLogRequest.limit,
                                      IF answer.client # NoError THEN answer.client
                                      ELSE answer.exc,
                                      answer.events, answer.nextForwardToken)
                    IN /\ calls' = calls \o <<GetRun(NoError, <<response>>), fetch>>
                       /\ run_index' = NextRunIndex(run_index, Len(run_ids),
                                                    r.raised # NoError)
                       /\ IF r.raised # NoError
                            THEN UNCHANGED <<analysis_results, ctx_errors>>
                            ELSE /\ ctx_errors' = ctx_errors \o out.ctx
                                 /\ analysis_results' =
                                      IF out.analysis.kind = "analysis"
                                        THEN [analysis_results EXCEPT
                                                !.runs = AppendRunAnalysis(@, out.analysis)]
                                        ELSE analysis_results
  /\ UNCHANGED <<pc, tool, run_id, omitted, engine_logs, manifest_logs, failed_tasks,
                 next_token, tasks_response, task_index, result, raised, run_ids,
                 include_analysis_prompt, prompt_data>>
  /\ UNCHANGED <<reader_locals, parse_locals>>

\* after the loop: the instructions if asked for, and the return
AnalyzeReturn ==
  /\ pc = "analyze_loop"
  /\ run_index >= Len(run_ids)
  /\ analysis_results' = AttachInstructions(analysis_results, include_analysis_prompt)
  /\ result' = analysis_results'
  /\ pc' = "done"
  /\ UNCHANGED <<tool, run_id, omitted, diagnose_locals, raised, ctx_errors, calls,
                 run_ids, include_analysis_prompt, run_index, prompt_data>>
  /\ UNCHANGED <<reader_locals, parse_locals>>

AnalyzeNext ==
  \/ AnalyzeCall
  \/ AnalyzeGetClient
  \/ AnalyzeProcessRun
  \/ AnalyzeReturn
\* analyze_run alone
AnalyzeSpec == Init /\ [][AnalyzeNext]_vars

(* ----------------- prompts: _get_run_analysis_data --------------------- *)
\* `return {}` of the outer except
EmptyMap == [kind |-> "empty"]

\* what CloudWatch did with a manifest fetch, read back from its entry in `calls`
AnswerOf(fetch) ==
  IF fetch.raised = ClientCreationError
    THEN LogAnswer(fetch.raised, NoError, fetch.returned, fetch.next)
    ELSE LogAnswer(NoError, fetch.raised, fetch.returned, fetch.next)

\* not the code: the newest analysis first
PromptProcessRunNewestFirst(runs, rid, got_run, answer) ==
  IF got_run.raised # NoError THEN runs
  ELSE
    LET run_response_ == got_run.returned[1] IN
      IF ~Truthy(run_response_.uuid) THEN runs
      ELSE
        LET r == get_run_manifest_logs_internal(AnalyzeLogRequest, answer) IN
          IF r.raised # NoError THEN runs
          ELSE
            LET out == PromptParseManifestForAnalysis(rid, run_response_, r.events) IN
              IF out.analysis.kind = "analysis" THEN <<out.analysis>> \o runs ELSE runs
\* one turn of `for run_id in run_ids` of _get_run_analysis_data: get_run, the
\* manifest page, the parser; an exception is logged and the loop goes on
PromptProcessRun(runs, rid, got_run, answer) ==
  IF got_run.raised # NoError THEN runs
  ELSE
    LET run_response_ == got_run.returned[1] IN
      IF ~Truthy(run_response_.uuid) THEN runs
      ELSE
        LET r == get_run_manifest_logs_internal(AnalyzeLogRequest, answer) IN
          IF r.raised # NoError THEN runs
          ELSE
            LET out == PromptParseManifestForAnalysis(rid, run_response_, r.events) IN
              IF out.analysis.kind = "analysis" THEN Append(runs, out.analysis) ELSE runs

RECURSIVE PromptRuns(_, _, _, _)
\* the loop of _get_run_analysis_data from the i-th id on, the backends
\* answering every id as `history` has it
PromptRuns(runs, ids, i, history) ==
  IF i > Len(ids) THEN runs
  ELSE
    LET rid == ids[i]
        got_run == SelectSeq(history, LAMBDA c : c.op = "get_run")[i]
        fetches == SelectSeq(history, LAMBDA c : c.op = "get_run_manifest_logs_internal"
                                                  /\ c.key[1] = rid)
        answer == IF fetches = <<>> THEN NoLogAnswer ELSE AnswerOf(fetches[1])
    IN PromptRuns(PromptProcessRun(runs, rid, got_run, answer), ids, i + 1, history)

\* _get_run_analysis_data: {} when the session or the client cannot be made,
\* analysis_results otherwise
GetRunAnalysisData(ids, session_error, history, now) ==
  IF session_error # NoError THEN EmptyMap
  ELSE [kind |-> "analysis_results",
        runs |-> PromptRuns(<<>>, ids, 1, history),
        summary |-> [totalRuns |-> Len(ids), analysisTimestamp |-> IsoFormat(now),
                     analysisType |-> "manifest-based"]]

\* _get_run_analysis_data is called with the ids analyze_run was called with,
\* and the backends answer as they answered analyze_run
GetRunAnalysisDataCall ==
  /\ tool = "analyze_run"
  /\ pc \in {"done", "raised"}
  /\ \E now \in Clock : prompt_data' = GetRunAnalysisData(run_ids, raised, calls, now)
  /\ pc' = "compared"
  /\ UNCHANGED <<tool, run_id, omitted, diagnose_locals, result, raised, ctx_errors, calls,
                 run_ids, include_analysis_prompt, run_index, analysis_results>>
  /\ UNCHANGED <<reader_locals, parse_locals>>

BothNext ==
  \/ AnalyzeCall
  \/ AnalyzeGetClient
  \/ AnalyzeProcessRun
  \/ AnalyzeReturn
  \/ GetRunAnalysisDataCall
\* analyze_run, then _get_run_analysis_data against the same backends
BothSpec == Init /\ [][BothNext]_vars

Next ==
  \/ LogToolCall
  \/ ManifestInternalCall
  \/ DiagnoseCall
  \/ DiagnoseGetClient
  \/ DiagnoseGetRun
  \/ DiagnoseEngineLogs
  \/ DiagnoseManifestLogs
  \/ DiagnoseListTasks
  \/ DiagnoseTaskLogs
  \/ DiagnoseNextPage
  \/ DiagnoseReturn

Spec == Init /\ [][Next]_vars

ToolsNext ==
  \/ DiagnoseCall
  \/ DiagnoseGetClient
  \/ DiagnoseGetRun
  \/ DiagnoseEngineLogs
  \/ DiagnoseManifestLogs
  \/ DiagnoseListTasks
  \/ DiagnoseTaskLogs
  \/ DiagnoseNextPage
  \/ DiagnoseReturn
  \/ AnalyzeCall
  \/ AnalyzeGetClient
  \/ AnalyzeProcessRun
  \/ AnalyzeReturn
\* the two tools that go to both backends: diagnose_run_failure and analyze_run
ToolsSpec == Init /\ [][ToolsNext]_vars

\* not the code: a diagnosis that cancels what it cannot list
BackendOperationCancelling(op) ==
  CASE op = "get_run" -> "get_run"
    [] op = "list_run_tasks" -> "cancel_run"
    [] op \in {"get_run_engine_logs", "get_run_manifest_logs", "get_task_logs",
               "get_run_manifest_logs_internal", "get_log_events"} -> "get_log_events"
    [] OTHER -> "unknown"
\* The method of the boto3 client that a call ends in: the omics client's
\* get_run and list_run_tasks, and for every log fetch the logs client's
\* get_log_events.
BackendOperation(op) ==
  CASE op = "get_run" -> "get_run"
    [] op = "list_run_tasks" -> "list_run_tasks"
    [] op \in {"get_run_engine_logs", "get_run_manifest_logs", "get_task_logs",
               "get_run_manifest_logs_internal", "get_log_events"} -> "get_log_events"
    [] OTHER -> "unknown"

(* ============================ properties =============================== *)
Diagnosing == tool = "diagnose_run_failure"
\* diagnose_run_failure has returned the full report
Reported == Diagnosing /\ pc = "done" /\ result.kind = "diagnosis"
ListCalls == CallsOf("list_run_tasks")
TaskLogCalls == CallsOf("get_task_logs")
EngineCalls == CallsOf("get_run_engine_logs")
ManifestCalls == CallsOf("get_run_manifest_logs")
Failed(c) == c.raised # NoError

\* C1: the report of a FAILED run lists as many failedTasks as list_run_tasks
\* returned items over all its pages, whatever the task log fetches did.
FailedTasksCountAllListed ==
  Reported => Len(result.failedTasks) = Returned(ListCalls)

\* C1 happens: two pages, two tasks, one log fetch failed and one did not
FailedTasksCountWitness ==
  /\ Reported
  /\ Len(ListCalls) = 2
  /\ Len(result.failedTasks) = 2
  /\ Failed(TaskLogCalls[1])
  /\ ~Failed(TaskLogCalls[2])

\* C2: the entry of a task whose log fetch raised has the one error string
\* naming that task (logCount 1); the entry of any other task has exactly the
\* messages its own fetch returned; this holds from the moment an entry is
\* appended, so a later failure changes no earlier entry.
TaskLogFailureIsolated ==
  Diagnosing =>
    /\ Len(failed_tasks) = Len(TaskLogCalls)
    /\ \A i \in 1..Len(failed_tasks) :
         LET entry == failed_tasks[i]
             c == TaskLogCalls[i]
         IN /\ c.key = <<run_id, entry.taskId>>
            /\ entry.taskId = TaskIdOf(i)
            /\ entry.logCount = Len(entry.logs)
            /\ IF Failed(c)
                 THEN entry.logs = <<Message("Error retrieving task logs for",
                                            <<entry.taskId>>, c.raised.text)>>
                 ELSE entry.logs = [j \in 1..Len(c.returned) |-> c.returned[j].message]
    /\ Reported => result.failedTasks = failed_tasks

\* C2 happens: the first task's logs came, the second task's fetch raised
TaskLogFailureWitness ==
  /\ Reported
  /\ Len(result.failedTasks) = 2
  /\ ~Failed(TaskLogCalls[1])
  /\ Len(result.failedTasks[1].logs) = 1
  /\ Failed(TaskLogCalls[2])

\* C3: a run that is not FAILED gets the report of status and message only,
\* and nothing but get_run is ever called for it.
NotFailedShortCircuits ==
  (Diagnosing /\ run_response # NoRunResponse /\ run_response.status # "FAILED") =>
    /\ pc = "done"
    /\ DOMAIN result = {"kind", "status", "message"}
    /\ result.status = run_response.status
    /\ result.message.subject = <<run_response.status>>
    /\ Len(calls) = 1
    /\ calls[1].op = "get_run"
    /\ ctx_errors = <<>>

\* C3 happens: a RUNNING run was diagnosed
NotFailedWitness ==
  Diagnosing /\ pc = "done" /\ run_response.status = "RUNNING" /\ result.kind = "not_failed"

\* C4: diagnose_run_failure raises only when making the client or get_run
\* failed; any later failure is kept as data and a report is returned.
OnlyGetRunFailureIsFatal ==
  (Diagnosing /\ pc = "raised") =>
    \/ calls = <<>>
    \/ Len(calls) = 1 /\ calls[1].op = "get_run" /\ Failed(calls[1])

\* the list_run_tasks requests so far form a chain of tokens
TaskPagesChained ==
  Diagnosing =>
    /\ \A i \in 1..Len(ListCalls) :
         /\ ListCalls[i].key = <<run_id, "FAILED">>
         /\ IF i = 1 THEN ListCalls[i].token = None
            ELSE /\ ~Failed(ListCalls[i - 1])
                 /\ ListCalls[i - 1].next \notin {None, ""}
                 /\ ListCalls[i].token = ListCalls[i - 1].next
    /\ (pc \in {"assemble", "done"} /\ run_response.status = "FAILED") =>
         /\ Len(ListCalls) >= 1
         /\ ListCalls[Len(ListCalls)].next \in {None, ""}
    /\ (pc = "list_tasks" /\ Len(ListCalls) >= 1) =>
         ListCalls[Len(ListCalls)].next \notin {None, ""}

\* the step taken when the items of a page are used up
TaskPageEndStep ==
  (Diagnosing /\ pc = "task_loop" /\ task_index = Len(tasks_response.items)) =>
    /\ tasks_response.nextToken = ListCalls[Len(ListCalls)].next
    /\ pc' = IF tasks_response.nextToken \in {None, ""} THEN "assemble" ELSE "list_tasks"
    /\ next_token' = tasks_response.nextToken
    /\ calls' = calls

\* C5: the first list_run_tasks request carries no startingToken; each later
\* one follows a response with a non-empty nextToken and carries that token;
\* at the end of a page the loop goes on exactly when the page had a token and
\* is left exactly when it had none, so the report is made after every page
\* was asked for, however many there are.
TaskPagesFollowedToTheEnd == []TaskPagesChained /\ [][TaskPageEndStep]_vars

\* C5 happens: as many pages as the backend had were read, the last one with
\* an empty token
TaskPagesWitness ==
  /\ Reported
  /\ Len(ListCalls) = MaxPages
  /\ ListCalls[1].next = "tok-A"
  /\ ListCalls[Len(ListCalls)].next = ""
  /\ Len(result.failedTasks) = MaxTasks

\* the engine log fetch raised
EngineFetchRaised == Len(EngineCalls) = 1 /\ Failed(EngineCalls[1])
\* a FAILED run is past the manifest step
PastManifest ==
  run_response.status = "FAILED" /\ pc \in {"list_tasks", "task_loop", "assemble", "done"}

\* C6: once the engine log fetch has raised, engine_logs is the one error
\* string, the manifest step is taken next (with its fetch when the run has a
\* uuid), then the failed tasks are listed, and the report carries the string.
EngineFailureIsRecorded ==
  (Diagnosing /\ EngineFetchRaised) =>
    /\ engine_logs = <<Message("Error retrieving engine logs", <<>>,
                               EngineCalls[1].raised.text)>>
    /\ pc = "manifest_logs" \/ pc = "raised" \/ PastManifest
    /\ pc = "raised" => Failed(calls[Len(calls)]) /\ calls[Len(calls)].op = "list_run_tasks"
    /\ (PastManifest /\ run_response.uuid \notin {None, ""}) => Len(ManifestCalls) = 1
    /\ pc \in {"task_loop", "assemble", "done"} => Len(ListCalls) >= 1
    /\ pc = "done" =>
         /\ result.kind = "diagnosis"
         /\ result.engineLogs = engine_logs
         /\ result.engineLogCount = 1

\* C6 happens: the engine fetch raised, the manifest was fetched, a task was
\* listed and the report returned
EngineFailureWitness ==
  /\ Reported
  /\ EngineFetchRaised
  /\ Len(ManifestCalls) = 1
  /\ ~Failed(ManifestCalls[1])
  /\ Len(result.failedTasks) >= 1

\* C7: the manifest fetch is made exactly when the FAILED run has a non-empty
\* uuid: without one there is never a manifest fetch and manifest_logs is the
\* fixed sentence; with one the fetch is made once, for that run and uuid.
ManifestFetchedIffUuid ==
  Diagnosing =>
    /\ run_response.uuid \in {None, ""} =>
         /\ Len(ManifestCalls) = 0
         /\ PastManifest =>
              manifest_logs = <<Message(
                "No run UUID available - manifest logs cannot be retrieved", <<>>, "")>>
    /\ (run_response.uuid \notin {None, ""} /\ PastManifest) =>
         /\ Len(ManifestCalls) = 1
         /\ ManifestCalls[1].key = <<run_id, run_response.uuid>>
    /\ Reported => result.manifestLogs = manifest_logs

\* C7 happens: a run with the empty uuid was reported
ManifestNoUuidWitness ==
  Reported /\ run_response.uuid = "" /\ Len(result.manifestLogs) = 1

HasPhrase(list, phrase) == \E i \in 1..Len(list) : list[i].phrase = phrase

\* C8: hasEngineLogs (hasManifestLogs) is true only when the fetch was made,
\* did not raise and returned an event; it is false when the list holds the
\* error string, is empty, or is the no-uuid sentence.
SummaryFlagsTruthful ==
  Reported =>
    /\ result.summary.hasEngineLogs =>
         /\ Len(EngineCalls) = 1
         /\ ~Failed(EngineCalls[1])
         /\ Len(EngineCalls[1].returned) >= 1
    /\ (result.engineLogs = <<>> \/ HasPhrase(result.engineLogs, "Error retrieving engine logs"))
         => ~result.summary.hasEngineLogs
    /\ result.summary.hasManifestLogs =>
         /\ Len(ManifestCalls) = 1
         /\ ~Failed(ManifestCalls[1])
         /\ Len(ManifestCalls[1].returned) >= 1
    /\ (\/ result.manifestLogs = <<>>
        \/ HasPhrase(result.manifestLogs, "Error retrieving manifest logs")
        \/ HasPhrase(result.manifestLogs,
                     "No run UUID available - manifest logs cannot be retrieved"))
         => ~result.summary.hasManifestLogs

\* C8 happens: engine logs came, the manifest fetch raised
SummaryFlagsWitness ==
  /\ Reported
  /\ result.summary.hasEngineLogs
  /\ Len(ManifestCalls) = 1
  /\ Failed(ManifestCalls[1])
  /\ ~result.summary.hasManifestLogs

\* C9: when making the client or get_run fails, the context gets exactly one
\* message, which names the run; the same exception is raised; nothing is
\* returned.
FatalErrorReportedOnce ==
  (Diagnosing /\ pc \notin {"get_omics_client", "get_run"} /\ run_response = NoRunResponse) =>
    /\ pc = "raised"
    /\ Len(ctx_errors) = 1
    /\ ctx_errors[1].subject = <<run_id>>
    /\ ctx_errors[1].tail = raised.text
    /\ ctx_errors[1].phrase = IF raised.class = "Exception"
                                THEN "Unexpected error diagnosing run failure for run"
                                ELSE "AWS error diagnosing run failure for run"
    /\ IF calls = <<>> THEN raised = OtherError("AWS session error")
       ELSE Len(calls) = 1 /\ calls[1].op = "get_run" /\ raised = calls[1].raised
            /\ Failed(calls[1])
    /\ result = NoResult

\* C9 happens: get_run raised a ClientError for the second run
FatalErrorWitness ==
  /\ Diagnosing
  /\ pc = "raised"
  /\ run_id = "run-2"
  /\ Len(calls) = 1
  /\ raised = ClientError("ResourceNotFoundException")

LogToolNames == {"get_run_logs", "get_run_engine_logs", "get_run_manifest_logs",
                 "get_task_logs"}
\* the tool asked CloudWatch for events and the stream was not there
StreamNotFound ==
  /\ Len(calls) = 1
  /\ calls[1].op = "get_log_events"
  /\ calls[1].raised = ClientError("ResourceNotFoundException")

Malformed(s) == s = "invalid-timestamp"
\* a time bound that is no ISO-8601 instant, given or empty
Unparseable(s) == s \in {"", "invalid-timestamp"}
LogToolCalled == tool \in LogToolNames /\ pc \in {"done", "raised"}

\* C11 as stated: whenever start_time or end_time is not a parseable ISO-8601
\* string, the log tool raises ValueError, tells the context once and makes no
\* get_log_events call.
UnparseableTimeIsValueError ==
  (LogToolCalled /\ (Unparseable(log_request.start_time)
                      \/ Unparseable(log_request.end_time))) =>
    /\ pc = "raised"
    /\ raised.class = "ValueError"
    /\ Len(ctx_errors) = 1
    /\ calls = <<>>

\* C11 amended: once the logs client is there, a non-empty start_time or
\* end_time that is no ISO-8601 instant makes the log tool raise ValueError,
\* tell the context once ('Invalid timestamp format: ...') and make no
\* get_log_events call; when making the client fails, that error is raised
\* with nothing told to the context; an empty string counts as no bound given.
MalformedTimeIsValueError ==
  LogToolCalled =>
    /\ (log_backend.client = NoError /\ (Malformed(log_request.start_time)
                                          \/ Malformed(log_request.end_time))) =>
         /\ pc = "raised"
         /\ raised.class = "ValueError"
         /\ result = NoResult
         /\ Len(ctx_errors) = 1
         /\ ctx_errors[1].phrase = "Invalid timestamp format"
         /\ calls = <<>>
    /\ log_backend.client # NoError =>
         /\ pc = "raised"
         /\ raised = log_backend.client
         /\ ctx_errors = <<>>
         /\ calls = <<>>
    /\ (log_backend.client = NoError /\ ~Malformed(log_request.start_time)
                                      /\ ~Malformed(log_request.end_time)) =>
         /\ Len(calls) = 1
         /\ calls[1].op = "get_log_events"

\* C11 happens: get_run_logs got a good start_time and a bad end_time
MalformedTimeWitness ==
  /\ tool = "get_run_logs"
  /\ pc = "raised"
  /\ log_request.start_time = "2022-01-01T00:00:00Z"
  /\ log_request.end_time = "invalid-timestamp"
  /\ Len(ctx_errors) = 1

(* ------------------------- the manifest parser ------------------------- *)
\* _parse_manifest_for_analysis has returned a run analysis
Parsed == tool = "_parse_manifest_for_analysis" /\ pc = "done" /\ run_analysis.kind = "analysis"
TaskRecords == IF Parsed THEN run_analysis.taskMetrics ELSE <<>>
\* the events whose message is a JSON object holding these keys
LinesWithKeys(keys) ==
  {i \in 1..Len(log_events) :
     log_events[i].message.tail.kind = "json" /\ keys \subseteq DOMAIN log_events[i].message.tail.obj}
RunShapedLines ==
  {i \in LinesWithKeys({"workflow", "metrics", "name"}) :
     "cpus" \notin DOMAIN log_events[i].message.tail.obj}
TaskShapedLines == LinesWithKeys({"cpus", "memory", "instanceType"})
LastOf(S) == CHOOSE i \in S : \A j \in S : j <= i

\* C12 as stated: every object with workflow, metrics, name and no cpus is
\* recorded as the run-level record, every object with cpus, memory and
\* instanceType adds a task record, never both, whatever the values under the
\* keys are.
ClassifiedByKeysWhateverTheValues ==
  Parsed =>
    /\ RunShapedLines \cap TaskShapedLines = {}
    /\ Len(run_analysis.taskMetrics) = Cardinality(TaskShapedLines)
    /\ RunShapedLines # {} =>
         /\ run_analysis.runDetails.kind = "run"
         /\ run_analysis.runDetails.arn = log_events[LastOf(RunShapedLines)].message.tail.obj["arn"]

\* the metrics object a task record was read from (a stream of one line)
MetricsOfOnlyLine ==
  LET d == log_events[1].message.tail.obj
  IN IF "metrics" \in DOMAIN d THEN d["metrics"].o ELSE EmptyDict
IsZero(r) == r.num = 0 /\ r.den # 0

CpuAtHalf(t) == t.reservedCpus.n > 0 /\ 2 * t.avgCpuUtilization.n = t.reservedCpus.n
CpuUnderHalf(t) == t.reservedCpus.n > 0 /\ 2 * t.avgCpuUtilization.n < t.reservedCpus.n
\* avgMemoryUtilizationGiB / reservedMemoryGiB is one half or more
MemoryAtLeastHalf(t) ==
  t.reservedMemoryGiB.n > 0 /\ 2 * t.avgMemoryUtilizationGiB.n >= t.reservedMemoryGiB.n

\* C14 as stated: a task record with a cpu ratio of exactly 0.5 is not flagged
\* isOverProvisioned, one with a cpu ratio below 0.5 is.
CpuHalfIsNeverOverProvisioned ==
  \A i \in 1..Len(TaskRecords) :
    /\ CpuAtHalf(TaskRecords[i]) => ~TaskRecords[i].isOverProvisioned
    /\ CpuUnderHalf(TaskRecords[i]) => TaskRecords[i].isOverProvisioned

\* C14 amended: a task record with a cpu ratio of exactly 0.5 is not flagged
\* isOverProvisioned when its memory ratio is 0.5 or more, and is flagged
\* otherwise; one with a cpu ratio below 0.5 is always flagged.
CpuHalfIsNotBelowThreshold ==
  \A i \in 1..Len(TaskRecords) :
    LET t == TaskRecords[i]
    IN /\ (CpuAtHalf(t) /\ MemoryAtLeastHalf(t)) => ~t.isOverProvisioned
       /\ (CpuAtHalf(t) /\ ~MemoryAtLeastHalf(t)) => t.isOverProvisioned
       /\ CpuUnderHalf(t) => t.isOverProvisioned

\* C14 happens: both ratios exactly one half, not flagged
CpuHalfWitness ==
  /\ Len(TaskRecords) = 1
  /\ CpuAtHalf(TaskRecords[1])
  /\ 2 * TaskRecords[1].avgMemoryUtilizationGiB.n = TaskRecords[1].reservedMemoryGiB.n
  /\ TaskRecords[1].reservedMemoryGiB.n > 0
  /\ ~TaskRecords[1].isOverProvisioned

RECURSIVE SumOver(_, _)
SumOver(records, field) ==
  IF records = <<>> THEN 0 ELSE Head(records)[field].n + SumOver(Tail(records), field)
\* r is actual / allocated when allocated > 0, and 0 otherwise
IsZeroSafeQuotient(r, actual, allocated) ==
  /\ r.den # 0
  /\ IF allocated > 0 THEN r.num * allocated = actual * r.den ELSE r.num = 0

\* C15: in a run analysis, totalTasks is the number of task records, the four
\* totals are the sums over the records, and each overall efficiency is the
\* actual total over the allocated total, or 0 when nothing was allocated.
SummaryAddsUpTaskRecords ==
  Parsed =>
    LET sm == run_analysis.summary
        tm == run_analysis.taskMetrics
    IN /\ sm.totalTasks = Len(tm)
       /\ sm.totalAllocatedCpus = SumOver(tm, "allocatedCpus")
       /\ sm.totalActualCpuUsage = SumOver(tm, "avgCpuUtilization")
       /\ sm.totalAllocatedMemoryGiB = SumOver(tm, "allocatedMemoryGiB")
       /\ sm.totalActualMemoryUsageGiB = SumOver(tm, "avgMemoryUtilizationGiB")
       /\ IsZeroSafeQuotient(sm.overallCpuEfficiency, sm.totalActualCpuUsage,
                             sm.totalAllocatedCpus)
       /\ IsZeroSafeQuotient(sm.overallMemoryEfficiency, sm.totalActualMemoryUsageGiB,
                             sm.totalAllocatedMemoryGiB)

\* C15 happens: two different tasks, 3 cpus allocated and 2 used
SummaryWitness ==
  /\ Parsed
  /\ run_analysis.summary.totalTasks = 2
  /\ run_analysis.summary.totalAllocatedCpus = 3
  /\ run_analysis.summary.overallCpuEfficiency = Ratio(2, 3)
  /\ run_analysis.taskMetrics[1].taskArn # run_analysis.taskMetrics[2].taskArn

(* ------------------------------ analyze_run ---------------------------- *)
Analyzing == tool = "analyze_run"
AnalysisReturned == Analyzing /\ pc = "done"
GetRunCalls == CallsOf("get_run")
ManifestFetches == CallsOf("get_run_manifest_logs_internal")
FetchesFor(rid) == SelectSeq(ManifestFetches, LAMBDA c : c.key[1] = rid)
\* the run ids of the analyses in a runs list, in its order
RunIdsOf(runs) == [i \in 1..Len(runs) |-> runs[i].runInfo.runId]
IdsIn(runs) == {runs[i].runInfo.runId : i \in 1..Len(runs)}

\* C16: when analyze_run returns, summary.totalRuns is the number of run ids
\* asked for and runs holds at most that many analyses.
TotalRunsIsRequestedCount ==
  AnalysisReturned =>
    /\ result.summary.totalRuns = Len(run_ids)
    /\ Len(result.runs) <= result.summary.totalRuns

\* C16 happens: three ids asked for, one analysed
TotalRunsWitness ==
  AnalysisReturned /\ Len(run_ids) = 3 /\ Len(result.runs) = 1

\* get_run answered for the i-th id, and the run has no uuid
HasNoUuid(i) ==
  /\ ~Failed(GetRunCalls[i])
  /\ ~Truthy(GetRunCalls[i].returned[1].uuid)
\* get_run and the manifest fetch of this id both succeeded
FetchesSucceeded(rid) == FetchesFor(rid) # <<>> /\ ~Failed(FetchesFor(rid)[1])
\* the parser told the context that it failed on this run
ParseReported(rid) ==
  \E i \in 1..Len(ctx_errors) :
    ctx_errors[i].phrase = "Error parsing manifest for run" /\ ctx_errors[i].subject = <<rid>>
\* ... and the page had an event and the parser did not fail
Contributes(rid) ==
  FetchesSucceeded(rid) /\ FetchesFor(rid)[1].returned # <<>> /\ ~ParseReported(rid)

\* C17 as stated: an id whose run has no uuid adds nothing to runs and causes
\* no manifest fetch; every other id whose fetches succeed adds one analysis,
\* in input order; totalRuns counts all ids.
EveryFetchedRunContributes ==
  AnalysisReturned =>
    /\ \A i \in 1..Len(run_ids) :
         HasNoUuid(i) => FetchesFor(run_ids[i]) = <<>> /\ run_ids[i] \notin IdsIn(result.runs)
    /\ RunIdsOf(result.runs) = SelectSeq(run_ids, FetchesSucceeded)
    /\ result.summary.totalRuns = Len(run_ids)

\* C17 amended: an id whose run has no uuid adds nothing to runs and causes no
\* manifest fetch; every other id whose fetches succeed, whose manifest page
\* has at least one event and whose parse does not fail adds one analysis, in
\* input order, and no other id adds any; totalRuns counts all ids.
RunsWithManifestContribute ==
  AnalysisReturned =>
    /\ \A i \in 1..Len(run_ids) :
         HasNoUuid(i) => FetchesFor(run_ids[i]) = <<>> /\ run_ids[i] \notin IdsIn(result.runs)
    /\ RunIdsOf(result.runs) = SelectSeq(run_ids, Contributes)
    /\ result.summary.totalRuns = Len(run_ids)

\* C17 happens: three ids, the second without a uuid, the first and third analysed
NoUuidSkippedWitness ==
  /\ AnalysisReturned
  /\ Len(run_ids) = 3
  /\ HasNoUuid(2)
  /\ RunIdsOf(result.runs) = <<run_ids[1], run_ids[3]>>
  /\ result.summary.totalRuns = 3

\* an exception was raised while the i-th id was processed
RunFailed(i) ==
  \/ Failed(GetRunCalls[i])
  \/ FetchesFor(run_ids[i]) # <<>> /\ Failed(FetchesFor(run_ids[i])[1])
  \/ ParseReported(run_ids[i])

\* C18: analyze_run raises only when the session or client cannot be made;
\* past that, every id gets its get_run, in order, whatever failed before it,
\* an id that failed is not in runs, and the call returns.
RunErrorsSkipOneId ==
  Analyzing =>
    /\ pc = "raised" => calls = <<>>
    /\ Len(GetRunCalls) <= Len(run_ids)
    /\ \A i \in 1..Len(GetRunCalls) : GetRunCalls[i].key = <<run_ids[i]>>
    /\ pc = "analyze_loop" => Len(GetRunCalls) = run_index
    /\ AnalysisReturned =>
         /\ Len(GetRunCalls) = Len(run_ids)
         /\ \A i \in 1..Len(run_ids) : RunFailed(i) => run_ids[i] \notin IdsIn(result.runs)

\* C18 happens: get_run failed for the first id, the manifest fetch for the
\* second, the parser for the third, and the call returned no analysis
AllRunsFailedWitness ==
  /\ AnalysisReturned
  /\ Len(run_ids) = 3
  /\ Failed(GetRunCalls[1])
  /\ FetchesFor(run_ids[2]) # <<>> /\ Failed(FetchesFor(run_ids[2])[1])
  /\ ParseReported(run_ids[3])
  /\ result.runs = <<>>

\* C19 as stated: a manifest page that came with a continuation cursor is
\* followed by a request for the same stream with that cursor, until a page
\* comes without one.
ManifestFetchedToTheEnd ==
  AnalysisReturned =>
    \A i \in 1..Len(ManifestFetches) :
      LET c == ManifestFetches[i]
      IN (~Failed(c) /\ c.next # None) =>
           \E j \in (i + 1)..Len(ManifestFetches) :
             ManifestFetches[j].key = c.key /\ ManifestFetches[j].token = c.next

\* C20: the returned result has the instructions block exactly when
\* include_analysis_prompt is set, and the block is the same fixed value
\* whatever ids were given and whatever the backend answered.
InstructionsIffRequested ==
  AnalysisReturned =>
    IF include_analysis_prompt
      THEN result.analysis_instructions = GetAnalysisInstructions
      ELSE result.analysis_instructions = NoInstructions

\* C20 happens: instructions asked for and attached though no run was analysed
InstructionsWitness ==
  /\ AnalysisReturned
  /\ include_analysis_prompt
  /\ Len(run_ids) = 2
  /\ result.runs = <<>>
  /\ result.analysis_instructions.prompt = GetAnalysisInstructions.prompt

(* ------------------------------ timestamps ----------------------------- *)
TimeKeys == {"creationTime", "startTime", "stopTime"}
\* a str that ends in a literal Z
IsIsoUtcZ(v) == v.t = "str" /\ EndsWith(v.text, "Z")

\* C21: every time the backend supplied comes back from diagnose_run_failure
\* and analyze_run (creationTime, startTime, stopTime, analysisTimestamp) as an
\* ISO-8601 UTC string that ends in a literal Z, never as a datetime object.
ReturnedTimesAreIsoUtcZ ==
  /\ Reported =>
       \A k \in TimeKeys : run_response[k] # NoTime => IsIsoUtcZ(result[k])
  /\ AnalysisReturned =>
       /\ EndsWith(result.summary.analysisTimestamp, "Z")
       /\ \A i \in 1..Len(result.runs) : \A k \in TimeKeys :
            result.runs[i].runInfo[k] # Str("") => IsIsoUtcZ(result.runs[i].runInfo[k])

\* the instant an epoch-millisecond timestamp denotes, written in UTC with Z
UtcInstantOf(ts) ==
  CASE ts = EpochMs(0, 0) -> "1970-01-01T00:00:00Z"
    [] ts = EpochMs(1640995200, 0) -> "2022-01-01T00:00:00Z"
    [] ts = EpochMs(1640995260, 0) -> "2022-01-01T00:01:00Z"
    [] ts = EpochMs(1640995320, 0) -> "2022-01-01T00:02:00Z"
    [] ts = EpochMs(1709251199, 999) -> "2024-02-29T23:59:59.999000Z"
    [] ts = EpochMs(951782400, 1) -> "2000-02-29T00:00:00.001000Z"
    [] ts = EpochMs(1704067199, 0) -> "2023-12-31T23:59:59Z"
StreamRead == tool = "_get_logs_from_stream" /\ pc = "done"

\* C22: the reader returns one event per backend event, in the backend's
\* order, each with the backend's message and with the epoch-millisecond
\* timestamp written as the UTC instant it denotes, Z for the offset;
\* 1640995200000 comes back as exactly 2022-01-01T00:00:00Z.
EventsConvertedToUtcZ ==
  StreamRead =>
    /\ Len(result.events) = Len(log_backend.events)
    /\ \A i \in 1..Len(result.events) :
         /\ result.events[i].timestamp = UtcInstantOf(log_backend.events[i].timestamp)
         /\ result.events[i].message.tail = log_backend.events[i].message
         /\ log_backend.events[i].timestamp = EpochMs(1640995200, 0) =>
              result.events[i].timestamp = "2022-01-01T00:00:00Z"

\* C22 happens: a page of two events, the later one first, was read
EventsConvertedWitness ==
  /\ StreamRead
  /\ Len(result.events) = 2
  /\ log_backend.events[1].timestamp = EpochMs(1709251199, 999)
  /\ log_backend.events[2].timestamp = EpochMs(1640995200, 0)
  /\ result.events[2].timestamp = "2022-01-01T00:00:00Z"
  /\ result.events[1].message # result.events[2].message

(* --------------------------- reads and nothing else -------------------- *)
ReadOperations == {"get_run", "list_run_tasks", "get_log_events"}
OperationsInvoked == {BackendOperation(calls[i].op) : i \in 1..Len(calls)}

\* C23: whatever path diagnose_run_failure or analyze_run takes, every
\* operation it invokes on a backend is one of get_run, list_run_tasks and
\* get_log_events; nothing that creates, updates, starts, cancels or deletes
\* is called.
OnlyReadOperations ==
  (Diagnosing \/ Analyzing) => OperationsInvoked \subseteq ReadOperations

\* C23 happens: a diagnosis that went through all three operations has returned
OnlyReadsWitness ==
  /\ Reported
  /\ OperationsInvoked = ReadOperations
  /\ Len(TaskLogCalls) = MaxTasks

(* --------------------------- the order of fetches ---------------------- *)
\* the calls that come before the enumeration of failed tasks
CallsBeforeTasks == IF Truthy(run_response.uuid) THEN 3 ELSE 2
RECURSIVE ItemsOf(_)
\* the tasks of the pages, page after page and item after item
ItemsOf(pages) == IF pages = <<>> THEN <<>> ELSE Head(pages).returned \o ItemsOf(Tail(pages))
TaskIdsOf(tasks) == [i \in 1..Len(tasks) |-> tasks[i].taskId]

\* C24: the calls of diagnose_run_failure come in the order get_run, engine
\* logs, manifest logs (when the run has a uuid), then the task enumeration;
\* in the enumeration every page is followed by the log fetches of its tasks,
\* one per task and in the order of the page, before the next page is asked
\* for; failed_tasks, and failedTasks of the report, list the tasks in the
\* order of the pages and of the items within them.
FetchesInOrder ==
  Diagnosing =>
    /\ Len(calls) >= 1 => calls[1].op = "get_run"
    /\ Len(calls) >= 2 => calls[2].op = "get_run_engine_logs"
    /\ (Len(calls) >= 3 /\ CallsBeforeTasks = 3) => calls[3].op = "get_run_manifest_logs"
    /\ Len(calls) > CallsBeforeTasks => calls[CallsBeforeTasks + 1].op = "list_run_tasks"
    /\ \A i \in 1..Len(calls) :
         /\ i > CallsBeforeTasks => calls[i].op \in {"list_run_tasks", "get_task_logs"}
         /\ i <= CallsBeforeTasks => calls[i].op \notin {"list_run_tasks", "get_task_logs"}
         /\ calls[i].op = "list_run_tasks" =>
              LET items == calls[i].returned IN
                /\ \A j \in 1..Len(items) :
                     i + j <= Len(calls) =>
                       /\ calls[i + j].op = "get_task_logs"
                       /\ calls[i + j].key = <<run_id, items[j].taskId>>
                /\ i + Len(items) + 1 <= Len(calls) =>
                     calls[i + Len(items) + 1].op = "list_run_tasks"
    /\ TaskIdsOf(failed_tasks) = SubSeq(TaskIdsOf(ItemsOf(ListCalls)), 1, Len(failed_tasks))
    /\ Reported => TaskIdsOf(result.failedTasks) = TaskIdsOf(ItemsOf(ListCalls))

\* C24 happens: a run with a uuid, two pages of one task each
FetchesInOrderWitness ==
  /\ Reported
  /\ Len(calls) = 7
  /\ Len(ListCalls) = 2
  /\ Len(ListCalls[1].returned) = 1
  /\ TaskIdsOf(result.failedTasks) = <<"task-1", "task-2">>

(* ------------------------------- cursors ------------------------------- *)
\* the continuation cursors the backends hand out: the nextToken of a task
\* page, the forward token of a log page
TaskCursors == {"tok-A"}
LogCursors == {"f/tok"}
LogFetches == SelectSeq(calls, LAMBDA c : c.op \in {"get_run_engine_logs",
                                                  "get_run_manifest_logs", "get_task_logs"})

\* C25: in diagnose_run_failure a list_run_tasks request carries no cursor or
\* the nextToken of the list_run_tasks response just before it, for the same
\* run, and never the token of a log page; the engine, manifest and task log
\* fetches are never given a cursor of either kind.
CursorsStayWithTheirSource ==
  Diagnosing =>
    /\ \A i \in 1..Len(ListCalls) :
         /\ ListCalls[i].key[1] = run_id
         /\ ListCalls[i].token \notin LogCursors
         /\ ListCalls[i].token \in TaskCursors =>
              i > 1 /\ ListCalls[i].token = ListCalls[i - 1].next
    /\ \A i \in 1..Len(LogFetches) : LogFetches[i].token \notin TaskCursors \cup LogCursors

\* C25 happens: the second page was asked for with the token of the first, and
\* the logs of its task were fetched while that token was held
CursorsWitness ==
  /\ Reported
  /\ Len(ListCalls) = 2
  /\ ListCalls[2].token = "tok-A"
  /\ next_token = ""
  /\ Len(ListCalls[2].returned) = 1
  /\ LogFetches[Len(LogFetches)].op = "get_task_logs"

(* ------------------------- messages passed over ------------------------ *)
ParserReturned == tool = "_parse_manifest_for_analysis" /\ pc = "done"
\* a message the parser makes nothing of: no braces around it, braces around
\* what is no JSON, an object of neither shape, a run or task object whose
\* metrics cannot be read
IsSkipped(line) ==
  \/ line.kind \in {"text", "malformed"}
  \/ /\ line.kind = "json"
     /\ \/ ~IsRunObject(line.obj) /\ ~IsTaskObject(line.obj)
        \/ IsRunObject(line.obj) /\ RunDetailsRaises(line.obj)
        \/ ~IsRunObject(line.obj) /\ IsTaskObject(line.obj) /\ ExtractRaises(line.obj)
RemoveAt(seq, i) == SubSeq(seq, 1, i - 1) \o SubSeq(seq, i + 1, Len(seq))
RecordsOf(analysis) == IF analysis.kind = "analysis" THEN analysis.taskMetrics ELSE <<>>

\* C26: the parser raises on no stream, and for every message it passes over
\* (not in braces, malformed JSON, neither shape, metrics that cannot be
\* read) the task records it produces are those, in the same order, that it
\* produces from the stream without that message.
SkippedMessagesLeaveNoTrace ==
  ParserReturned =>
    /\ raised = NoError
    /\ \A i \in 1..Len(log_events) :
         IsSkipped(log_events[i].message.tail) =>
           RecordsOf(run_analysis) =
             RecordsOf(ParseManifestForAnalysis(run_id, run_response,
                                                RemoveAt(log_events, i)).analysis)

\* C26 happens: malformed JSON, then a task
SkippedMessageWitness ==
  /\ ParserReturned
  /\ Len(log_events) = 2
  /\ log_events[1].message.tail.kind = "malformed"
  /\ Len(RecordsOf(run_analysis)) = 1

(* ------------------------ tasks without a reservation ------------------ *)
EitherParserReturned ==
  /\ tool \in {"_parse_manifest_for_analysis", "prompts._parse_manifest_for_analysis"}
  /\ pc = "done"
\* the only message of the stream, when it is a JSON object
OnlyObject == log_events[1].message.tail.obj
\* the key is missing from the metrics of the only message
ReservationAbsent(key) ==
  /\ Len(log_events) = 1
  /\ log_events[1].message.tail.kind = "json"
  /\ "metrics" \in DOMAIN OnlyObject => key \notin DOMAIN OnlyObject["metrics"].o

\* C27: in the task records of either parser (tools and prompts), a record
\* whose reservedCpus or reservedMemoryGiB is zero or less is flagged
\* isOverProvisioned; a task whose manifest object names no reservation gets
\* such a record.
UnreservedIsOverProvisioned ==
  EitherParserReturned =>
    \A i \in 1..Len(RecordsOf(run_analysis)) :
      LET record == RecordsOf(run_analysis)[i] IN
        /\ (record.reservedCpus.n <= 0 \/ record.reservedMemoryGiB.n <= 0) =>
             record.isOverProvisioned
        /\ (ReservationAbsent("cpusReserved") \/ ReservationAbsent("memoryReservedGiB")) =>
             record.isOverProvisioned

\* C27 happens: the prompt-side parser met a task with memory in full use and
\* no cpu reservation
UnreservedWitness ==
  /\ tool = "prompts._parse_manifest_for_analysis"
  /\ pc = "done"
  /\ Len(RecordsOf(run_analysis)) = 1
  /\ ReservationAbsent("cpusReserved")
  /\ RecordsOf(run_analysis)[1].reservedMemoryGiB = JNum(2)
  /\ RecordsOf(run_analysis)[1].avgMemoryUtilizationGiB = JNum(2)
  /\ RecordsOf(run_analysis)[1].isOverProvisioned

(* ------------------------- counters of the report ---------------------- *)
\* C28: in every full report of diagnose_run_failure failedTaskCount and
\* summary.totalFailedTasks are the length of failedTasks, engineLogCount is
\* the length of engineLogs, manifestLogCount the length of manifestLogs, and
\* the logCount of every failed task the length of its logs; an error string
\* or the no-uuid sentence counts as one.
CountersAgreeWithLists ==
  Reported =>
    /\ result.failedTaskCount = Len(result.failedTasks)
    /\ result.summary.totalFailedTasks = Len(result.failedTasks)
    /\ result.engineLogCount = Len(result.engineLogs)
    /\ result.manifestLogCount = Len(result.manifestLogs)
    /\ \A i \in 1..Len(result.failedTasks) :
         result.failedTasks[i].logCount = Len(result.failedTasks[i].logs)
    /\ HasPhrase(result.engineLogs, "Error retrieving engine logs") => result.engineLogCount = 1
    /\ HasPhrase(result.manifestLogs,
                 "No run UUID available - manifest logs cannot be retrieved") =>
         result.manifestLogCount = 1
    /\ \A i \in 1..Len(result.failedTasks) :
         HasPhrase(result.failedTasks[i].logs, "Error retrieving task logs for") =>
           result.failedTasks[i].logCount = 1

\* C28 happens: two engine lines, the no-uuid sentence, a task without logs and
\* a task whose fetch raised
CountersWitness ==
  /\ Reported
  /\ result.engineLogCount = 2
  /\ run_response.uuid = None
  /\ result.manifestLogCount = 1
  /\ result.failedTaskCount = 2
  /\ result.failedTasks[1].logCount = 0
  /\ result.failedTasks[2].logs[1].phrase = "Error retrieving task logs for"

(* ----------------------- manifests without events ---------------------- *)
\* get_run answered for the i-th id with a uuid
HasUuid(i) == ~Failed(GetRunCalls[i]) /\ Truthy(GetRunCalls[i].returned[1].uuid)
\* the manifest page of the i-th id came back, with this many events
EventsReturned(i) ==
  IF FetchesSucceeded(run_ids[i]) THEN Len(FetchesFor(run_ids[i])[1].returned) ELSE 0

\* C29: when analyze_run returns, an id with a uuid whose get_run and manifest
\* fetch succeeded and whose page held no event has no analysis in runs; an id
\* has one exactly when it has a uuid, none of get_run, the manifest fetch and
\* the parser ended in an exception, and the page held at least one event.
EmptyManifestContributesNothing ==
  AnalysisReturned =>
    \A i \in 1..Len(run_ids) :
      /\ (HasUuid(i) /\ FetchesSucceeded(run_ids[i]) /\ EventsReturned(i) = 0) =>
           run_ids[i] \notin IdsIn(result.runs)
      /\ run_ids[i] \in IdsIn(result.runs) <=>
           (HasUuid(i) /\ ~RunFailed(i) /\ EventsReturned(i) >= 1)

\* C29 happens: the manifest of the first id is there and empty, the second
\* id is analysed
EmptyManifestWitness ==
  /\ AnalysisReturned
  /\ Len(run_ids) = 2
  /\ HasUuid(1)
  /\ FetchesSucceeded(run_ids[1])
  /\ EventsReturned(1) = 0
  /\ RunIdsOf(result.runs) = <<run_ids[2]>>

(* ------------------------ the prompt and the tool ---------------------- *)
Compared == pc = "compared"
\* the session or the omics client could not be made
SessionFailed == raised # NoError

\* C30: for the same run ids and the same backend answers,
\* _get_run_analysis_data of the prompt and analyze_run of the tool give the
\* same runs, totalRuns and analysisType; they part only when the session or
\* the client cannot be made: the prompt side returns an empty map, the tool
\* side tells the context once and raises.
PromptAndToolAgree ==
  Compared =>
    IF SessionFailed
      THEN /\ prompt_data = EmptyMap
           /\ result = NoResult
           /\ Len(ctx_errors) = 1
           /\ ctx_errors[1].phrase = "Error analyzing runs"
           /\ calls = <<>>
      ELSE /\ prompt_data.runs = result.runs
           /\ prompt_data.summary.totalRuns = result.summary.totalRuns
           /\ prompt_data.summary.analysisType = result.summary.analysisType
           /\ prompt_data.summary.totalRuns = Len(run_ids)

\* C30 happens: instructions not asked for, three ids, the first and the third
\* analysed by both sides, the second failed in the parser
PromptAndToolWitness ==
  /\ Compared
  /\ ~include_analysis_prompt
  /\ Len(run_ids) = 3
  /\ ParseReported(run_ids[2])
  /\ Len(result.runs) = 2
  /\ RunIdsOf(prompt_data.runs) = <<run_ids[1], run_ids[3]>>
====
